---- MODULE Spec2Model ----
(***************************************************************************)
(* Model of the Ensemble ML Platform: the server actions (app/actions:     *)
(* processDataset, getDatasetRows, executePythonScript and                 *)
(* extractJsonFromStdout), the values VisualizationDashboard and           *)
(* InteractiveCharts derive from a result, the ErrorBoundary component and *)
(* the check_precomputed script.                                           *)
(*                                                                         *)
(* Strings are modelled as sequences of fragments (tokens): concatenation  *)
(* is \o, "contains" is membership of a fragment, length is Len.  The two  *)
(* transport markers are one token each ("S" = RESULTS_JSON_START,         *)
(* "E" = RESULTS_JSON_END); neither marker is a prefix or a suffix of the  *)
(* other or of itself, so an occurrence never straddles two tokens.        *)
(* JSON values are records with a "kind" field.                            *)
(***************************************************************************)
EXTENDS Integers, Sequences, FiniteSets, TLC

VARIABLES
    formData,     \* the FormData processDataset was called with
    cache,        \* public/precomputed-results: file name -> content
    dataFile,     \* the CSV of the requested dataset under data/
    pc,           \* processDataset: "idle" | "awaiting" | "returned"
    datasetId,    \* processDataset local
    metaLearner,  \* processDataset local (after the || "linear" default)
    ret,          \* value processDataset returned
    io,           \* file-system and process calls made so far by the call
    child,        \* the spawned Python process as the OS sees it
    stdout,       \* executePythonScript local
    stderr,       \* executePythonScript local
    completed,    \* executePythonScript local
    timer,        \* timeoutHandle: "none" | "armed" | "fired" | "cleared"
    promise,      \* the promise executePythonScript returned
    rowsDataset,  \* the datasetId getDatasetRows was called with
    rowsRet,      \* value getDatasetRows returned
    rowsIo,       \* file-system calls made by getDatasetRows
    ex,           \* extractJsonFromStdout harness: input and outcome
    nz,           \* result normalization harness: parsed results and payload
    dash,         \* VisualizationDashboard / InteractiveCharts derived values
    eb,           \* ErrorBoundary: props, state, last render, onReset calls
    chk,          \* check_precomputed: directory, progress and exit code
    page,         \* Home: its six state values, requests in flight, boundary
    preview,      \* DatasetPreview: props, state, loads in flight, display
    hist          \* error-distribution histogram: predictions and bins

vars == <<formData, cache, dataFile, pc, datasetId, metaLearner, ret, io, child,
          stdout, stderr, completed, timer, promise, rowsDataset, rowsRet, rowsIo, ex,
          nz, dash, eb, chk, page, preview, hist>>

\* state of the components and scripts outside app/actions
uiVars == <<page, preview, hist>>
auxVars == <<nz, dash, eb, chk, uiVars>>

procVars == <<child, stdout, stderr, completed, timer, promise>>

(***************************************************************************)
(* Bounds of the model                                                     *)
(***************************************************************************)
MaxDataEvents == 2
MaxExtractLen == 4
\* largest number of prediction records in a pipeline output or cached file
MaxPredictions == 11
\* largest number of entries of feature_importance
MaxFeatures == 9
\* renders of the ErrorBoundary and invocations of its reset handler
MaxRenders == 4
MaxResets == 2
\* loads of the DatasetPreview that have not returned
MaxLoads == 2
\* predictions given to the error-distribution histogram
MaxHistPredictions == 3

(***************************************************************************)
(* Program constants                                                       *)
(***************************************************************************)
DEFAULT_PYTHON_TIMEOUT_MS == 120000
DEFAULT_MAX_DATASET_MB == 5
\* PYTHON_STDOUT_MAX_MB is read from the environment (getNumberEnv accepts any
\* finite positive number); the model runs with a limit of a few tokens.
PYTHON_STDOUT_MAX_BYTES == 6
PYTHON_TIMEOUT_MS == DEFAULT_PYTHON_TIMEOUT_MS
MAX_DATASET_FILE_SIZE_BYTES == DEFAULT_MAX_DATASET_MB * 1024 * 1024

\* number of prediction rows the dashboard table shows: slice(0, 10)
PredictionsShown == 10
\* features in the dashboard list: slice(0, 5)
ListTop == 5
\* features in the bar chart: slice(0, 8)
ChartTop == 8

ALLOWED_DATASETS == <<"automobile", "concrete", "loan">>
ALLOWED_META_LEARNERS == <<"linear", "random_forest", "xgboost">>

Range(s) == {s[i] : i \in DOMAIN s}

isValidDataset(dataset) == dataset \in Range(ALLOWED_DATASETS)

\* Variant: the meta-learner whitelist is not applied
isValidMetaLearnerAny(ml) == TRUE
isValidMetaLearner(ml) == ml \in Range(ALLOWED_META_LEARNERS)

DATASET_FILES ==
    [d \in Range(ALLOWED_DATASETS) |->
        CASE d = "automobile" -> "Automobile.csv"
          [] d = "concrete"   -> "Concrete.csv"
          [] d = "loan"       -> "Loan Approval.csv"]

(***************************************************************************)
(* JSON values                                                             *)
(***************************************************************************)
Undef == [kind |-> "undefined"]
Null == [kind |-> "null"]
\* isRecord: typeof value === "object" && value !== null && !Array.isArray
isRecord(v) == v.kind = "object"
\* JavaScript truthiness of the values the model uses
Truthy(v) ==
    \/ v.kind \in {"object", "true", "number1", "array"}
    \/ v.kind = "number" /\ v.n # 0
    \/ v.kind = "string" /\ v.s # ""
\* a || b
OrElse(a, b) == IF Truthy(a) THEN a ELSE b
\* property read v.f ; reading a property of undefined or null throws
HasField(v, f) == v.kind = "object" /\ f \in DOMAIN v
Get(v, f) == IF HasField(v, f) THEN v[f] ELSE Undef
Throws(v) == v.kind \in {"undefined", "null"}

(***************************************************************************)
(* JavaScript numbers, strings, arrays and the operators applied to them.  *)
(* Numbers are integers and the code's arithmetic is applied to them       *)
(* unchanged; NaN is a value of its own.                                   *)
(***************************************************************************)
Num(n) == [kind |-> "number", n |-> n]
Str(s) == [kind |-> "string", s |-> s]
NaN == [kind |-> "NaN"]
Arr(items) == [kind |-> "array", items |-> items]
\* Object.keys of an object value
Keys(v) == IF v.kind = "object" THEN DOMAIN v \ {"kind"} ELSE {}
\* an object value with the keys K and the values val[k]
Obj(K, val(_)) ==
    [k \in K \cup {"kind"} |-> IF k = "kind" THEN "object" ELSE val(k)]
\* a ?? b
Nullish(a, b) == IF a.kind \in {"undefined", "null"} THEN b ELSE a
\* typeof v === 'number' (true of NaN)
TypeofNumber(v) == v.kind \in {"number", "NaN", "number1"}
\* Number(s) for the strings the model uses
StringToNumber(s) ==
    CASE s = ""   -> Num(0)
      [] s = "2"  -> Num(2)
      [] OTHER    -> NaN
\* ToNumber: the coercion applied by -, * and Math.max
ToNumber(v) ==
    CASE v.kind = "number"    -> v
      [] v.kind = "number1"   -> Num(1)
      [] v.kind = "null"      -> Num(0)
      [] v.kind = "false"     -> Num(0)
      [] v.kind = "true"      -> Num(1)
      [] v.kind = "string"    -> StringToNumber(v.s)
      [] OTHER                -> NaN
\* isFinite(Number(v)); the model has no infinite value
isFinite(v) == ToNumber(v) # NaN
\* a - b
Minus(a, b) ==
    IF ToNumber(a) = NaN \/ ToNumber(b) = NaN THEN NaN
    ELSE Num(ToNumber(a).n - ToNumber(b).n)
\* a * b
Times(a, b) ==
    IF ToNumber(a) = NaN \/ ToNumber(b) = NaN THEN NaN
    ELSE Num(ToNumber(a).n * ToNumber(b).n)
\* Math.max(...vals) of a non-empty set of values
MathMax(vals) ==
    IF \E v \in vals : ToNumber(v) = NaN THEN NaN
    ELSE Num(CHOOSE m \in {ToNumber(v).n : v \in vals} :
                 \A v \in vals : ToNumber(v).n <= m)

(***************************************************************************)
(* Error messages: sequences of fragments                                  *)
(***************************************************************************)
Contains(msg, frag) == \E i \in DOMAIN msg : msg[i] = frag

InvalidDatasetMsg(d) ==
    <<"Invalid dataset", ": ", d, ". Allowed values: ", "automobile, concrete, loan">>

InvalidDatasetRowsMsg(d) == <<"Invalid dataset", ": ", d>>

InvalidMetaLearnerMsg(m) ==
    <<"Invalid meta-learner", ": ", m, ". Allowed values: ",
      "linear, random_forest, xgboost">>

FileTooLargeMsg ==
    <<"Dataset file exceeds allowed size", " (", "5.0", " MB)">>

StatFailedMsg ==
    <<"Unable to access dataset file",
      ". Please verify the bundled data files are available on the server.">>

FsErrorMsg == <<"ENOENT: no such file or directory">>

Fail(msg) == [success |-> FALSE, error |-> msg]
Ok(data) == [success |-> TRUE, data |-> data]
NoRet == [pending |-> TRUE]

(***************************************************************************)
(* The precomputed-results directory                                       *)
(***************************************************************************)
VotingFile(d) == <<d, "-voting.json">>
StackingFile(d, m) == <<d, "-stacking-", m, ".json">>

CacheFileNames ==
    {VotingFile(d) : d \in Range(ALLOWED_DATASETS)} \cup
    {StackingFile(d, m) : d \in Range(ALLOWED_DATASETS),
                          m \in Range(ALLOWED_META_LEARNERS)}

FileDataset(f) == f[1]

\* Parts of a well-formed precomputed document of dataset d
VotingPart == [kind |-> "object", algorithm |-> "Voting"]
StackingPart == [kind |-> "object", algorithm |-> "Stacking"]
InfoPart(d) == [kind |-> "object", dataset_id |-> d]

FullData(d) ==
    [kind |-> "object", voting |-> VotingPart, stacking |-> StackingPart,
     dataset_info |-> InfoPart(d)]
NoInfoData == [kind |-> "object", voting |-> VotingPart, stacking |-> StackingPart]
EmptyObject == [kind |-> "object"]
SyntaxError == [kind |-> "syntaxerror"]
JTrue == [kind |-> "true"]
JFalse == [kind |-> "false"]
JOne == [kind |-> "number1"]

\* The kinds of file the model puts in the cache directory
CacheKinds ==
    {"missing", "unreadable", "unparsable", "null", "failed", "truthy",
     "nodata", "emptydata", "noinfo", "full"}

CacheContent(k, d) ==
    CASE k = "missing"    -> [exists |-> FALSE, readable |-> FALSE, json |-> SyntaxError]
      [] k = "unreadable" -> [exists |-> TRUE, readable |-> FALSE, json |-> SyntaxError]
      [] k = "unparsable" -> [exists |-> TRUE, readable |-> TRUE, json |-> SyntaxError]
      [] k = "null"       -> [exists |-> TRUE, readable |-> TRUE, json |-> Null]
      [] k = "failed"     -> [exists |-> TRUE, readable |-> TRUE,
                              json |-> [kind |-> "object", success |-> JFalse,
                                        error |-> <<"precompute failed">>,
                                        data |-> FullData(d)]]
      [] k = "truthy"     -> [exists |-> TRUE, readable |-> TRUE,
                              json |-> [kind |-> "object", success |-> JOne,
                                        data |-> FullData(d)]]
      [] k = "nodata"     -> [exists |-> TRUE, readable |-> TRUE,
                              json |-> [kind |-> "object", success |-> JTrue]]
      [] k = "emptydata"  -> [exists |-> TRUE, readable |-> TRUE,
                              json |-> [kind |-> "object", success |-> JTrue,
                                        data |-> EmptyObject]]
      [] k = "noinfo"     -> [exists |-> TRUE, readable |-> TRUE,
                              json |-> [kind |-> "object", success |-> JTrue,
                                        data |-> NoInfoData]]
      [] k = "full"       -> [exists |-> TRUE, readable |-> TRUE,
                              json |-> [kind |-> "object", success |-> JTrue,
                                        data |-> FullData(d)]]

\* a name outside the directory listing is a file that does not exist
existsSync(f) == f \in DOMAIN cache /\ cache[f].exists

\* JSON.parse(readFileSync(f, "utf-8")) : throws when the file cannot be read
\* or its text is no JSON
ReadJsonThrows(f) == ~cache[f].readable \/ cache[f].json = SyntaxError
ReadJson(f) == cache[f].json

\* Variant: only the voting file's success flag is tested
LoadPrecomputedVotingOnly(votingFile, stackingFile) ==
    LET votingData == ReadJson(votingFile)
        stackingData == ReadJson(stackingFile)
        miss == [hit |-> FALSE, data |-> Undef]
    IN  IF ReadJsonThrows(votingFile) \/ ReadJsonThrows(stackingFile) THEN miss
        ELSE IF Throws(votingData) THEN miss
        ELSE IF ~Truthy(Get(votingData, "success")) THEN miss
        ELSE IF Throws(Get(votingData, "data")) THEN miss
        ELSE IF Throws(stackingData) \/ Throws(Get(stackingData, "data")) THEN miss
        ELSE [hit |-> TRUE,
              data |-> [voting |-> Get(Get(votingData, "data"), "voting"),
                        stacking |-> Get(Get(stackingData, "data"), "stacking"),
                        dataset_info |->
                            OrElse(Get(Get(votingData, "data"), "dataset_info"),
                                   Get(Get(stackingData, "data"), "dataset_info"))]]

\* Variant: dataset_info is taken from the stacking file first
LoadPrecomputedInfoFromStacking(votingFile, stackingFile) ==
    LET votingData == ReadJson(votingFile)
        stackingData == ReadJson(stackingFile)
        miss == [hit |-> FALSE, data |-> Undef]
    IN  IF ReadJsonThrows(votingFile) \/ ReadJsonThrows(stackingFile) THEN miss
        ELSE IF Throws(votingData) THEN miss
        ELSE IF ~Truthy(Get(votingData, "success")) THEN miss
        ELSE IF Throws(stackingData) THEN miss
        ELSE IF ~Truthy(Get(stackingData, "success")) THEN miss
        ELSE IF Throws(Get(votingData, "data")) THEN miss
        ELSE IF Throws(Get(stackingData, "data")) THEN miss
        ELSE [hit |-> TRUE,
              data |-> [voting |-> Get(Get(votingData, "data"), "voting"),
                        stacking |-> Get(Get(stackingData, "data"), "stacking"),
                        dataset_info |->
                            OrElse(Get(Get(stackingData, "data"), "dataset_info"),
                                   Get(Get(votingData, "data"), "dataset_info"))]]

\* The try block of the precomputed path (lines 205-226).  Result:
\* hit = TRUE with the combined data, or hit = FALSE (fall through to Python).
LoadPrecomputed(votingFile, stackingFile) ==
    LET votingData == ReadJson(votingFile)
        stackingData == ReadJson(stackingFile)
        miss == [hit |-> FALSE, data |-> Undef]
    IN  IF ReadJsonThrows(votingFile) \/ ReadJsonThrows(stackingFile) THEN miss
        ELSE IF Throws(votingData) THEN miss                   \* TypeError
        ELSE IF ~Truthy(Get(votingData, "success")) THEN miss  \* && short-circuits
        ELSE IF Throws(stackingData) THEN miss                 \* TypeError
        ELSE IF ~Truthy(Get(stackingData, "success")) THEN miss
        ELSE IF Throws(Get(votingData, "data")) THEN miss      \* TypeError
        ELSE IF Throws(Get(stackingData, "data")) THEN miss    \* TypeError
        ELSE [hit |-> TRUE,
              data |-> [voting |-> Get(Get(votingData, "data"), "voting"),
                        stacking |-> Get(Get(stackingData, "data"), "stacking"),
                        dataset_info |->
                            OrElse(Get(Get(votingData, "data"), "dataset_info"),
                                   Get(Get(stackingData, "data"), "dataset_info"))]]

\* A well-formed precomputed document whose three parts name the file they
\* were written to
FileDocument(f) ==
    [exists |-> TRUE, readable |-> TRUE,
     json |-> [kind |-> "object", success |-> JTrue,
               data |-> [kind |-> "object",
                         voting |-> [kind |-> "object", algorithm |-> "Voting",
                                     file |-> f],
                         stacking |-> [kind |-> "object", algorithm |-> "Stacking",
                                       file |-> f],
                         dataset_info |-> [kind |-> "object",
                                           dataset_id |-> FileDataset(f),
                                           file |-> f]]]]
\* the same document written without its dataset_info
FileDocumentNoInfo(f) ==
    [FileDocument(f) EXCEPT !.json.data =
        [k \in DOMAIN @ \ {"dataset_info"} |-> @[k]]]
TaggedKinds == {"document", "document-noinfo"}
CacheFile(k, f) ==
    CASE k = "document"        -> FileDocument(f)
      [] k = "document-noinfo" -> FileDocumentNoInfo(f)
      [] OTHER                 -> CacheContent(k, FileDataset(f))

(***************************************************************************)
(* The data directory                                                      *)
(***************************************************************************)
DataFileNames == {DATASET_FILES[d] : d \in Range(ALLOWED_DATASETS)}

\* statSync throws / size in bytes / readFileSync throws
DataFileKinds ==
    {[stat |-> "throws", size |-> 0, read |-> "throws"],
     [stat |-> "ok", size |-> MAX_DATASET_FILE_SIZE_BYTES, read |-> "ok"],
     [stat |-> "ok", size |-> MAX_DATASET_FILE_SIZE_BYTES, read |-> "throws"],
     [stat |-> "ok", size |-> MAX_DATASET_FILE_SIZE_BYTES + 1, read |-> "ok"],
     [stat |-> "ok", size |-> 6 * 1024 * 1024, read |-> "ok"]}

\* Lines 239-255: the size check throws inside the try whose catch replaces
\* every error by the "Unable to access" message.  <<>> = no error.
StatTry(file) ==
    IF file.stat = "throws" THEN FsErrorMsg
    ELSE IF file.size > MAX_DATASET_FILE_SIZE_BYTES THEN FileTooLargeMsg
    ELSE <<>>
StatCheck(file) == IF StatTry(file) # <<>> THEN StatFailedMsg ELSE <<>>

(***************************************************************************)
(* extractJsonFromStdout and JSON.parse on token strings                   *)
(***************************************************************************)
markerStart == "S"
markerEnd == "E"
markerStartLength == 1
Whitespace == "w"

Min(S) == CHOOSE x \in S : \A y \in S : x <= y
Max(S) == CHOOSE x \in S : \A y \in S : x >= y

\* String.prototype.indexOf / lastIndexOf, 0-based, -1 when absent
indexOf(str, t) ==
    IF \E i \in DOMAIN str : str[i] = t
    THEN Min({i \in DOMAIN str : str[i] = t}) - 1
    ELSE -1
lastIndexOf(str, t) ==
    IF \E i \in DOMAIN str : str[i] = t
    THEN Max({i \in DOMAIN str : str[i] = t}) - 1
    ELSE -1
\* String.prototype.substring(a, b) for 0 <= a <= b <= length
substring(str, a, b) == SubSeq(str, a + 1, b)

RECURSIVE trimStart(_)
trimStart(str) ==
    IF str # <<>> /\ Head(str) = Whitespace THEN trimStart(Tail(str)) ELSE str
RECURSIVE trimEnd(_)
trimEnd(str) ==
    IF str # <<>> /\ str[Len(str)] = Whitespace
    THEN trimEnd(SubSeq(str, 1, Len(str) - 1)) ELSE str
trim(str) == trimEnd(trimStart(str))

ExtractThrow == [threw |-> TRUE, value |-> <<>>]
ExtractValue(v) == [threw |-> FALSE, value |-> v]

\* Variant: the end marker is searched from the end of the output
extractJsonLastEnd(out) ==
    LET jsonStart == indexOf(out, markerStart)
        jsonEnd == lastIndexOf(out, markerEnd)
        firstBrace == indexOf(out, "{")
        lastBrace == lastIndexOf(out, "}")
    IN  IF jsonStart # -1 /\ jsonEnd # -1 /\ jsonEnd > jsonStart
        THEN ExtractValue(trim(substring(out, jsonStart + markerStartLength, jsonEnd)))
        ELSE IF firstBrace = -1 \/ lastBrace = -1 \/ lastBrace <= firstBrace
        THEN ExtractThrow
        ELSE ExtractValue(substring(out, firstBrace, lastBrace + 1))

extractJsonFromStdout(out) ==
    LET jsonStart == indexOf(out, markerStart)
        jsonEnd == indexOf(out, markerEnd)
        firstBrace == indexOf(out, "{")
        lastBrace == lastIndexOf(out, "}")
    IN  IF jsonStart # -1 /\ jsonEnd # -1 /\ jsonEnd > jsonStart
        THEN ExtractValue(trim(substring(out, jsonStart + markerStartLength, jsonEnd)))
        ELSE IF firstBrace = -1 \/ lastBrace = -1 \/ lastBrace <= firstBrace
        THEN ExtractThrow
        ELSE ExtractValue(substring(out, firstBrace, lastBrace + 1))

\* The documents the Python pipeline may print: the token between the braces
\* names the object's content.
PipelineMessage == "DataFormatError: dataset has fewer than 30 rows"

PyBodies == {"full", "novoting", "error"}

PyInfo == [kind |-> "object", n_samples |-> 100, n_features |-> 4]

PyValue(b) ==
    CASE b = "full"     -> [kind |-> "object", voting |-> VotingPart,
                            stacking |-> StackingPart, dataset_info |-> PyInfo]
      [] b = "novoting" -> [kind |-> "object", stacking |-> StackingPart,
                            dataset_info |-> PyInfo]
      [] b = "error"    -> [kind |-> "object", success |-> JFalse,
                            error |-> <<PipelineMessage>>]

\* JSON.parse: whitespace between tokens is insignificant; anything that is
\* not one document is a SyntaxError.
JSONparse(str) ==
    LET t == SelectSeq(str, LAMBDA c : c # Whitespace)
    IN  IF t = <<"{", "}">> THEN EmptyObject
        ELSE IF t = <<"null">> THEN Null
        ELSE IF Len(t) = 3 /\ t[1] = "{" /\ t[3] = "}" /\ t[2] \in PyBodies
        THEN PyValue(t[2])
        ELSE SyntaxError

(***************************************************************************)
(* executePythonScript                                                     *)
(***************************************************************************)
\* emitted counts the data events of the process (stdout and stderr)
NoCode == -2
NoChild == [state |-> "none", errored |-> FALSE, kills |-> 0, emitted |-> 0,
            exitCode |-> NoCode]
Pending == [state |-> "pending", value |-> <<>>]

\* resolve / reject settle a promise once; later calls are ignored
resolve(p, v) == IF p.state = "pending" THEN [state |-> "resolved", value |-> v] ELSE p
reject(p, msg) == IF p.state = "pending" THEN [state |-> "rejected", value |-> msg] ELSE p

kill(c) == [c EXCEPT !.kills = @ + 1]

TimeoutMsg == <<"Python script timed out after ", ToString(PYTHON_TIMEOUT_MS), " ms">>
OverflowMsg == <<"Python script output exceeded allowed size limit">>
SpawnErrorMsg == <<"Failed to start Python process: ", "spawn python ENOENT">>

\* The exit code as the close event reports it; NullCode stands for null
\* (the process was ended by a signal).
NullCode == -1
ExitCodes == {0, 1, NullCode}
CodeText(code) == IF code = NullCode THEN "null" ELSE ToString(code)

ExitMsg(code, err) ==
    <<"Python script exited with code ", CodeText(code), ": ">> \o
    (IF err = <<>> THEN <<"No stderr output">> ELSE err)

StdoutChunks ==
    {<<"x">>,
     <<"S", "{", "full", "}", "E">>,
     <<"S", "{", "novoting", "}", "E">>,
     <<"S", "{", "error", "}", "E">>,
     <<"{", "full", "}">>}

StderrChunks == {<<"UserWarning: convergence">>, <<PipelineMessage>>}

\* new Promise(...): spawn, the three buffers and setTimeout (lines 61-79)
Spawn ==
    /\ child' = [NoChild EXCEPT !.state = "running"]
    /\ stdout' = <<>>
    /\ stderr' = <<>>
    /\ completed' = FALSE
    /\ timer' = "armed"
    /\ promise' = Pending

\* Variant: the timeout ends the call without rejecting the promise
OnTimeoutSilent ==
    /\ timer = "armed"
    /\ timer' = "fired"
    /\ IF completed
       THEN UNCHANGED <<child, completed>>
       ELSE /\ child' = kill(child)
            /\ completed' = TRUE
    /\ UNCHANGED <<promise, stdout, stderr>>

\* Variant: the timeout only signals the child and leaves the promise to
\* the close handler
OnTimeoutKillOnly ==
    /\ timer = "armed"
    /\ timer' = "fired"
    /\ child' = IF completed THEN child ELSE kill(child)
    /\ UNCHANGED <<completed, promise, stdout, stderr>>

\* setTimeout callback (lines 73-79)
OnTimeout ==
    /\ timer = "armed"
    /\ timer' = "fired"
    /\ IF completed
       THEN UNCHANGED <<child, completed, promise>>
       ELSE /\ child' = kill(child)
            /\ completed' = TRUE
            /\ promise' = reject(promise, TimeoutMsg)
    /\ UNCHANGED <<stdout, stderr>>

\* Variant: stdout is accumulated without the size check
OnStdoutDataUnbounded(data) ==
    /\ child.state = "running"
    /\ child.emitted < MaxDataEvents
    /\ child' = [child EXCEPT !.emitted = @ + 1]
    /\ IF completed THEN UNCHANGED stdout ELSE stdout' = stdout \o data
    /\ UNCHANGED <<stderr, completed, timer, promise>>

\* pythonProcess.stdout.on('data') (lines 81-97)
OnStdoutData(data) ==
    /\ child.state = "running"
    /\ child.emitted < MaxDataEvents
    /\ LET emitted == [child EXCEPT !.emitted = @ + 1]
       IN  IF completed
           THEN /\ child' = emitted
                /\ UNCHANGED <<stdout, completed, timer, promise>>
           ELSE /\ stdout' = stdout \o data
                /\ IF Len(stdout') > PYTHON_STDOUT_MAX_BYTES
                   THEN /\ child' = kill(emitted)
                        /\ timer' = IF timer = "armed" THEN "cleared" ELSE timer
                        /\ completed' = TRUE
                        /\ promise' = reject(promise, OverflowMsg)
                   ELSE /\ child' = emitted
                        /\ UNCHANGED <<completed, timer, promise>>
    /\ UNCHANGED stderr

\* Variant: stderr is appended to whether or not the call has completed
OnStderrDataLate(data) ==
    /\ child.state = "running"
    /\ child.emitted < MaxDataEvents
    /\ child' = [child EXCEPT !.emitted = @ + 1]
    /\ stderr' = stderr \o data
    /\ UNCHANGED <<stdout, completed, timer, promise>>

\* pythonProcess.stderr.on('data') (lines 99-102)
OnStderrData(data) ==
    /\ child.state = "running"
    /\ child.emitted < MaxDataEvents
    /\ child' = [child EXCEPT !.emitted = @ + 1]
    /\ IF completed THEN UNCHANGED stderr ELSE stderr' = stderr \o data
    /\ UNCHANGED <<stdout, completed, timer, promise>>

\* Variant: the exit code is tested for truthiness, so null counts as 0
OnCloseFalsy(code) ==
    /\ child.state = "running"
    /\ child' = [child EXCEPT !.state = "closed", !.exitCode = code]
    /\ IF completed
       THEN UNCHANGED <<completed, timer, promise>>
       ELSE /\ completed' = TRUE
            /\ timer' = IF timer = "armed" THEN "cleared" ELSE timer
            /\ promise' = IF code # 0 /\ code # NullCode
                          THEN reject(promise, ExitMsg(code, stderr))
                          ELSE resolve(promise, stdout)
    /\ UNCHANGED <<stdout, stderr>>

\* pythonProcess.on('close') (lines 104-116)
OnClose(code) ==
    /\ child.state = "running"
    /\ child' = [child EXCEPT !.state = "closed", !.exitCode = code]
    /\ IF completed
       THEN UNCHANGED <<completed, timer, promise>>
       ELSE /\ completed' = TRUE
            /\ timer' = IF timer = "armed" THEN "cleared" ELSE timer
            /\ promise' = IF code # 0
                          THEN reject(promise, ExitMsg(code, stderr))
                          ELSE resolve(promise, stdout)
    /\ UNCHANGED <<stdout, stderr>>

\* pythonProcess.on('error') (lines 118-124)
OnError ==
    /\ child.state = "running"
    /\ ~child.errored
    /\ child' = [child EXCEPT !.errored = TRUE]
    /\ IF completed
       THEN UNCHANGED <<completed, timer, promise>>
       ELSE /\ completed' = TRUE
            /\ timer' = IF timer = "armed" THEN "cleared" ELSE timer
            /\ promise' = reject(promise, SpawnErrorMsg)
    /\ UNCHANGED <<stdout, stderr>>

(***************************************************************************)
(* processDataset                                                          *)
(***************************************************************************)
PythonFailedMsg(inner) ==
    <<"ML Processing Failed: ">> \o inner \o
    <<". Please check if Python and required packages (scikit-learn, xgboost, pandas, numpy) are installed.">>

ParseFailedMsg ==
    <<"Unable to parse machine learning results. Please check the server logs for details.">>

\* Variant: the dataset whitelist is not applied
ValidateNoWhitelist(d, m) ==
    IF d = "" THEN <<"No dataset selected">>
    ELSE IF ~isValidMetaLearner(m) THEN InvalidMetaLearnerMsg(m)
    ELSE <<>>

\* Input validation (lines 183-193); <<>> = valid
Validate(d, m) ==
    IF d = "" THEN <<"No dataset selected">>
    ELSE IF ~isValidDataset(d) THEN InvalidDatasetMsg(d)
    ELSE IF ~isValidMetaLearner(m) THEN InvalidMetaLearnerMsg(m)
    ELSE <<>>

\* ensureDatasetInfo (lines 149-153); TRUE = throws
ensureDatasetInfoThrows(results) == ~isRecord(Get(results, "dataset_info"))

(***************************************************************************)
(* Classification normalization (lines 348-422)                            *)
(***************************************************************************)
\* key.toLowerCase() for the model names the model uses
toLowerCase(key) ==
    CASE key = "Logistic Regression" -> "logistic regression"
      [] key = "Random Forest"       -> "random forest"
      [] key = "XGBoost"             -> "xgboost"
      [] key = "Voting Ensemble"     -> "voting ensemble"
      [] key = "Stacking Ensemble"   -> "stacking ensemble"
      [] key = "ENSEMBLE"            -> "ensemble"
      [] OTHER                       -> key
\* lower.includes("ensemble")
includesEnsemble(lower) ==
    lower \in {"voting ensemble", "stacking ensemble", "ensemble"}

\* { accuracy: m?.accuracy ?? 0, precision: ..., recall: ..., f1_score: ... }
fourMetrics(m) ==
    [kind |-> "object",
     accuracy |-> Nullish(Get(m, "accuracy"), Num(0)),
     precision |-> Nullish(Get(m, "precision"), Num(0)),
     recall |-> Nullish(Get(m, "recall"), Num(0)),
     f1_score |-> Nullish(Get(m, "f1_score"), Num(0))]

\* Variant: the ensemble entries are kept among the base models
mapBaseKeepAll(metricsObj) ==
    LET src == OrElse(metricsObj, EmptyObject)
    IN  Obj(Keys(src), LAMBDA key : fourMetrics(src[key]))

mapBase(metricsObj) ==
    LET src == OrElse(metricsObj, EmptyObject)
    IN  Obj({key \in Keys(src) : ~includesEnsemble(toLowerCase(key))},
            LAMBDA key : fourMetrics(src[key]))

bestBase(base) ==
    LET vals == {OrElse(Get(base[k], "accuracy"), Num(0)) : k \in Keys(base)}
    IN  IF vals # {} THEN MathMax(vals) ELSE Num(0)

\* votingImpRaw / stackingImpRaw (lines 376-378, 382-384)
ImpRaw(ensemble, base) ==
    IF Get(ensemble, "accuracy") # Undef
    THEN Times(Minus(Get(ensemble, "accuracy"), bestBase(base)), Num(100))
    ELSE Num(0)

\* toFixed(1) of an integer, followed by "%"
fmtImp(x) ==
    IF ~isFinite(x) THEN <<"0%">>
    ELSE <<ToString(ToNumber(x).n), ".0", "%">>

\* ensemble_performance / meta_model_performance of the payload
performance(ensemble, impRaw) ==
    [kind |-> "object",
     accuracy |-> Nullish(Get(ensemble, "accuracy"), Num(0)),
     precision |-> Nullish(Get(ensemble, "precision"), Num(0)),
     recall |-> Nullish(Get(ensemble, "recall"), Num(0)),
     f1_score |-> Nullish(Get(ensemble, "f1_score"), Num(0)),
     improvement_over_best_base |-> fmtImp(impRaw),
     raw_improvement |-> impRaw]

\* voting / stacking as read from the parsed results (lines 349-350)
ensemblePart(pythonResults, name) ==
    OrElse(Get(pythonResults, name),
           OrElse(Get(Get(pythonResults, "ensembles"), name), EmptyObject))

\* votingMetrics / stackingMetrics (lines 352-353)
partMetrics(part) ==
    OrElse(OrElse(Get(part, "metrics"), Get(part, "base_models")), EmptyObject)

\* results.voting (lines 393-407)
votingResult(pythonResults) ==
    LET voting == ensemblePart(pythonResults, "voting")
        votingMetrics == partMetrics(voting)
        votingBase == mapBase(votingMetrics)
        votingEnsemble == OrElse(Get(votingMetrics, "Voting Ensemble"), EmptyObject)
    IN  [kind |-> "object",
         algorithm |-> "Voting Classifier",
         base_models |-> votingBase,
         ensemble_performance |->
             performance(votingEnsemble, ImpRaw(votingEnsemble, votingBase)),
         feature_importance |-> OrElse(Get(voting, "feature_importance"), EmptyObject),
         predictions_sample |-> OrElse(Get(voting, "predictions_sample"), Arr(<<>>)),
         visualizations |-> OrElse(Get(voting, "visualizations"), Null)]

\* results.stacking (lines 408-422)
stackingResult(pythonResults) ==
    LET stacking == ensemblePart(pythonResults, "stacking")
        stackingMetrics == partMetrics(stacking)
        stackingBase == mapBase(stackingMetrics)
        stackingEnsemble ==
            OrElse(Get(stackingMetrics, "Stacking Ensemble"), EmptyObject)
    IN  [kind |-> "object",
         algorithm |-> "Stacking Classifier",
         base_models |-> stackingBase,
         meta_model_performance |->
             performance(stackingEnsemble, ImpRaw(stackingEnsemble, stackingBase)),
         feature_importance |-> OrElse(Get(stacking, "feature_importance"), EmptyObject),
         predictions_sample |-> OrElse(Get(stacking, "predictions_sample"), Arr(<<>>)),
         visualizations |-> OrElse(Get(stacking, "visualizations"), Null)]

\* Lines 317-435: the payload built from the parsed Python results.
\* error = <<>> when none is thrown.
BuildResults(d, pythonResults) ==
    LET isLoanClassification == d = "loan"
        info == Get(pythonResults, "dataset_info")
    IN  IF ~isRecord(pythonResults)
        THEN [error |-> IF isLoanClassification
                        THEN <<"Python classification results are malformed">>
                        ELSE <<"Python regression results are malformed">>,
              data |-> Undef]
        ELSE IF ensureDatasetInfoThrows(pythonResults)
        THEN [error |-> <<"Python results missing dataset_info">>, data |-> Undef]
        ELSE IF ~isLoanClassification
        THEN [error |-> <<>>,
              data |-> [voting |-> Get(pythonResults, "voting"),
                        stacking |-> Get(pythonResults, "stacking"),
                        dataset_info |->
                            [kind |-> "object", dataset_id |-> d,
                             n_samples |-> Get(info, "n_samples"),
                             n_features |-> Get(info, "n_features"),
                             task_type |-> "regression"]]]
        ELSE [error |-> <<>>,
              data |-> [voting |-> votingResult(pythonResults),
                        stacking |-> stackingResult(pythonResults),
                        dataset_info |->
                            [kind |-> "object", dataset_id |-> d,
                             n_samples |-> Get(info, "n_samples"),
                             n_features |-> Get(info, "n_features"),
                             task_type |-> "classification"]]]

\* Lines 291-455: what processDataset returns once the promise has settled
AfterPython(d, p) ==
    IF p.state = "rejected" THEN Fail(PythonFailedMsg(p.value))
    ELSE LET extracted == extractJsonFromStdout(p.value)
             pythonResults == JSONparse(extracted.value)
         IN  IF extracted.threw \/ pythonResults = SyntaxError
             THEN Fail(PythonFailedMsg(ParseFailedMsg))
             ELSE LET built == BuildResults(d, pythonResults)
                  IN  IF built.error # <<>>
                      THEN Fail(PythonFailedMsg(built.error))
                      ELSE Ok(built.data)

\* Form values: "" stands for an empty or absent field (both falsy)
DatasetInputs == {"", "iris"} \cup Range(ALLOWED_DATASETS)
MetaLearnerInputs == {"", "svm"} \cup Range(ALLOWED_META_LEARNERS)

\* processDataset from its call to its first return or to the await of
\* executePythonScript (lines 177-291)
CallProcessDataset(d, metaRaw) ==
    /\ pc = "idle"
    /\ rowsRet = NoRet
    /\ LET m == IF metaRaw = "" THEN "linear" ELSE metaRaw
           invalid == Validate(d, m)
           votingFile == VotingFile(d)
           stackingFile == StackingFile(d, m)
           found == existsSync(votingFile) /\ existsSync(stackingFile)
           pre == IF found THEN LoadPrecomputed(votingFile, stackingFile)
                  ELSE [hit |-> FALSE, data |-> Undef]
           cacheIo == {"existsSync"} \cup (IF found THEN {"readCache"} ELSE {})
           known == d \in DOMAIN DATASET_FILES
           file == dataFile[DATASET_FILES[d]]
           statError == StatCheck(file)
       IN  /\ formData' = [dataset |-> d, meta_learner |-> metaRaw]
           /\ datasetId' = d
           /\ metaLearner' = m
           /\ IF invalid # <<>>
              THEN /\ ret' = Fail(invalid)
                   /\ pc' = "returned"
                   /\ io' = {}
                   /\ UNCHANGED procVars
              ELSE IF pre.hit
              THEN /\ ret' = Ok(pre.data)
                   /\ pc' = "returned"
                   /\ io' = cacheIo
                   /\ UNCHANGED procVars
              ELSE IF ~known
              THEN /\ ret' = Fail(<<"Unknown dataset", ": ", d>>)
                   /\ pc' = "returned"
                   /\ io' = cacheIo
                   /\ UNCHANGED procVars
              ELSE IF statError # <<>>
              THEN /\ ret' = Fail(statError)
                   /\ pc' = "returned"
                   /\ io' = cacheIo \cup {"statSync"}
                   /\ UNCHANGED procVars
              ELSE IF file.read = "throws"
              THEN /\ ret' = Fail(FsErrorMsg)
                   /\ pc' = "returned"
                   /\ io' = cacheIo \cup {"statSync", "readFileSync"}
                   /\ UNCHANGED procVars
              ELSE /\ Spawn
                   /\ pc' = "awaiting"
                   /\ io' = cacheIo \cup {"statSync", "readFileSync", "spawn"}
                   /\ UNCHANGED ret
    /\ UNCHANGED <<cache, dataFile, rowsDataset, rowsRet, rowsIo, ex, auxVars>>

\* The continuation of processDataset after the await (lines 293-464)
ResumeProcessDataset ==
    /\ pc = "awaiting"
    /\ promise.state # "pending"
    /\ ret' = AfterPython(datasetId, promise)
    /\ pc' = "returned"
    /\ UNCHANGED <<formData, cache, dataFile, datasetId, metaLearner, io, procVars,
                   rowsDataset, rowsRet, rowsIo, ex, auxVars>>

(***************************************************************************)
(* getDatasetRows (lines 470-503)                                          *)
(***************************************************************************)
CallGetDatasetRows(d) ==
    /\ pc = "idle"
    /\ rowsRet = NoRet
    /\ rowsDataset' = d
    /\ IF d = ""
       THEN rowsRet' = Fail(<<"No dataset specified">>) /\ rowsIo' = {}
       ELSE IF ~isValidDataset(d)
       THEN rowsRet' = Fail(InvalidDatasetRowsMsg(d)) /\ rowsIo' = {}
       ELSE IF d \notin DOMAIN DATASET_FILES
       THEN rowsRet' = Fail(<<"Unknown dataset", ": ", d>>) /\ rowsIo' = {}
       ELSE IF dataFile[DATASET_FILES[d]].read = "throws"
       THEN rowsRet' = Fail(FsErrorMsg) /\ rowsIo' = {"readFileSync"}
       ELSE /\ rowsRet' = [success |-> TRUE, headers |-> <<"h">>, rows |-> <<>>]
            /\ rowsIo' = {"readFileSync"}
    /\ UNCHANGED <<formData, cache, dataFile, pc, datasetId, metaLearner, ret, io,
                   procVars, ex, auxVars>>

(***************************************************************************)
(* Harness applying extractJsonFromStdout to marker-wrapped output         *)
(***************************************************************************)
ExtractAlphabet == {"x", "w", "{", "}", markerStart, markerEnd}

SeqsUpTo(n, A) == UNION {[1..k -> A] : k \in 0..n}

ExIdle == [pre |-> <<>>, payload |-> <<>>, post |-> <<>>, done |-> FALSE,
           result |-> ExtractThrow]

\* log text, RESULTS_JSON_START, payload, RESULTS_JSON_END, log text
Wrapped(e) == e.pre \o <<markerStart>> \o e.payload \o <<markerEnd>> \o e.post

ExtractStep ==
    /\ ~ex.done
    /\ ex' = [ex EXCEPT !.done = TRUE, !.result = extractJsonFromStdout(Wrapped(ex))]
    /\ UNCHANGED <<formData, cache, dataFile, pc, datasetId, metaLearner, ret, io,
                   procVars, rowsDataset, rowsRet, rowsIo, auxVars>>

(***************************************************************************)
(* Harness applying the result normalization of processDataset to parsed   *)
(* pipeline results, and the precomputed path to cached documents          *)
(***************************************************************************)
Absent == [kind |-> "absent"]

\* JSON values a metric may hold; Undef = the field is absent
MetricValues == {Undef, Null, Num(0), Num(1), Num(2), Str("n/a"), Str("2")}

\* the metrics of one model whose accuracy is a
ModelMetrics(a) ==
    IF a = Undef THEN [kind |-> "object", f1_score |-> Num(1)]
    ELSE [kind |-> "object", accuracy |-> a, f1_score |-> Num(1)]

\* a metrics object: model name -> metrics (Absent = no such entry)
MetricsObject(lr, rf, ens, ensKey, upper) ==
    LET entry == [k \in {"Logistic Regression", "Random Forest", ensKey, "ENSEMBLE"} |->
                     CASE k = "Logistic Regression" -> lr
                       [] k = "Random Forest"       -> rf
                       [] k = ensKey                -> ens
                       [] OTHER                     -> upper]
    IN  Obj({k \in DOMAIN entry : entry[k] # Absent},
            LAMBDA k : ModelMetrics(entry[k]))

\* n prediction records
Records(n) == Arr([i \in 1..n |-> [kind |-> "object", row |-> i]])

PredictionCounts == {0, PredictionsShown, MaxPredictions}

\* voting / stacking as the pipeline prints it: the metrics under "metrics"
\* or under "base_models"
PipelinePart(field, metricsObj, n) ==
    IF field = "metrics"
    THEN [kind |-> "object", metrics |-> metricsObj, predictions_sample |-> Records(n)]
    ELSE [kind |-> "object", base_models |-> metricsObj,
          predictions_sample |-> Records(n)]

\* the parsed pipeline output: direct or under the "ensembles" wrapper
PipelineResults(wrapped, voting, stacking) ==
    IF wrapped
    THEN [kind |-> "object",
          ensembles |-> [kind |-> "object", voting |-> voting, stacking |-> stacking],
          dataset_info |-> PyInfo]
    ELSE [kind |-> "object", voting |-> voting, stacking |-> stacking,
          dataset_info |-> PyInfo]

\* A precomputed classification document as the result contract describes
\* it: base models without ensemble entries, the ensemble under
\* ensemble_performance / meta_model_performance with raw_improvement =
\* (ensemble - best base) * 100, and n prediction records.
CachedEnsemble(metric, perfField, lr, e, n) ==
    LET base == Obj({"Logistic Regression", "Random Forest"},
                    LAMBDA k : Obj({metric},
                                   LAMBDA f : IF k = "Random Forest" THEN Num(1)
                                              ELSE Num(lr)))
        perf == Obj({metric, "raw_improvement"},
                    LAMBDA f : IF f = metric THEN Num(e)
                               ELSE Num((e - (IF lr > 1 THEN lr ELSE 1)) * 100))
    IN  IF perfField = "ensemble_performance"
        THEN [kind |-> "object", base_models |-> base,
              ensemble_performance |-> perf, predictions_sample |-> Records(n)]
        ELSE [kind |-> "object", base_models |-> base,
              meta_model_performance |-> perf, predictions_sample |-> Records(n)]

\* accuracy for the classification dataset, r2_score for the regression ones
PrimaryMetric(d) == IF d = "loan" THEN "accuracy" ELSE "r2_score"

CachedDocument(d, lr, e, n) ==
    [exists |-> TRUE, readable |-> TRUE,
     json |-> [kind |-> "object", success |-> JTrue,
               data |-> [kind |-> "object",
                         voting |-> CachedEnsemble(PrimaryMetric(d),
                                        "ensemble_performance", lr, e, n),
                         stacking |-> CachedEnsemble(PrimaryMetric(d),
                                        "meta_model_performance", lr, e, n),
                         dataset_info |-> InfoPart(d)]]]

NzIdle == [source |-> "none", dataset |-> "", pythonResults |-> Undef,
           done |-> FALSE, error |-> <<>>, data |-> Undef]

\* lines 317-435 applied to the parsed results
NormalizeLive ==
    /\ nz.source = "live"
    /\ ~nz.done
    /\ LET built == BuildResults(nz.dataset, nz.pythonResults)
       IN  nz' = [nz EXCEPT !.done = TRUE, !.error = built.error,
                            !.data = built.data]
    /\ UNCHANGED <<formData, cache, dataFile, pc, datasetId, metaLearner, ret, io,
                   procVars, rowsDataset, rowsRet, rowsIo, ex, dash, eb, chk, uiVars>>

\* lines 202-219 applied to the cache directory
NormalizeCached ==
    /\ nz.source = "cache"
    /\ ~nz.done
    /\ LET loaded == LoadPrecomputed(VotingFile(nz.dataset),
                                     StackingFile(nz.dataset, "linear"))
       IN  /\ loaded.hit
           /\ nz' = [nz EXCEPT !.done = TRUE, !.data = loaded.data]
    /\ UNCHANGED <<formData, cache, dataFile, pc, datasetId, metaLearner, ret, io,
                   procVars, rowsDataset, rowsRet, rowsIo, ex, dash, eb, chk, uiVars>>

(***************************************************************************)
(* VisualizationDashboard: values derived from the selected method's data  *)
(* (lines 273-394), and the feature rankings of the dashboard list (lines  *)
(* 955-959) and of InteractiveCharts (lines 119-131)                       *)
(***************************************************************************)
\* baseModels (lines 273-293)
baseModels(methodData) ==
    LET direct == Get(methodData, "base_models")
        metrics == Get(methodData, "metrics")
    IN  IF Truthy(direct) /\ direct.kind = "object" THEN direct
        ELSE IF Truthy(metrics)
        THEN Obj(Keys(metrics) \ {"Voting Ensemble"}, LAMBDA k : metrics[k])
        ELSE EmptyObject

\* primaryModelKey (lines 295-296)
primaryModelKey(isClassification, methodData) ==
    IF isClassification /\ Truthy(Get(baseModels(methodData), "Logistic Regression"))
    THEN "Logistic Regression"
    ELSE "Linear Regression"

Abs(x) == IF x < 0 THEN -x ELSE x
\* Math.sqrt on the integers of the model (exact on perfect squares)
Sqrt(x) == CHOOSE r \in 0..x : r * r <= x /\ x < (r + 1) * (r + 1)

\* compute(predKey) (lines 315-328)
compute(preds, predKey) ==
    LET usable == SelectSeq(preds, LAMBDA p : /\ isFinite(Get(p, "actual"))
                                              /\ isFinite(Get(p, predKey)))
        diff(i) == Minus(Get(usable[i], "actual"), Get(usable[i], predKey)).n
        sumAbs[i \in 0..Len(usable)] ==
            IF i = 0 THEN 0 ELSE sumAbs[i - 1] + Abs(diff(i))
        sumSq[i \in 0..Len(usable)] ==
            IF i = 0 THEN 0 ELSE sumSq[i - 1] + diff(i) * diff(i)
    IN  IF Len(usable) = 0
        THEN [kind |-> "object", rmse |-> Num(0), mae |-> Num(0)]
        ELSE [kind |-> "object",
              rmse |-> Num(Sqrt(sumSq[Len(usable)] \div Len(usable))),
              mae |-> Num(sumAbs[Len(usable)] \div Len(usable)),
              isApproximate |-> JTrue]

\* the prediction key of each regression base model (lines 330-332)
predKeyOf(name) ==
    CASE name = "Linear Regression" -> "linear_reg"
      [] name = "Random Forest"     -> "random_forest"
      [] name = "XGBoost"           -> "xgboost"

\* { ...base, rmse: base?.rmse ?? approx.rmse, mae: base?.mae ?? approx.mae }
withErrors(base, approx) ==
    Obj(Keys(base) \cup {"rmse", "mae"},
        LAMBDA f : CASE f = "rmse" -> Nullish(Get(base, "rmse"), approx.rmse)
                     [] f = "mae"  -> Nullish(Get(base, "mae"), approx.mae)
                     [] OTHER      -> base[f])

\* baseModelsEnhanced (lines 303-352)
baseModelsEnhanced(isClassification, methodData) ==
    LET base == baseModels(methodData)
        fixed == {"Linear Regression", "Random Forest", "XGBoost"}
        needFix == \E name \in fixed : ~Truthy(Get(Get(base, name), "rmse"))
        sample == Get(methodData, "predictions_sample")
        preds == IF sample.kind = "array" THEN sample.items ELSE <<>>
    IN  IF isClassification \/ ~needFix \/ Len(preds) = 0 THEN base
        ELSE Obj(Keys(base) \cup fixed,
                 LAMBDA name :
                     IF name \in fixed
                     THEN withErrors(Get(base, name), compute(preds, predKeyOf(name)))
                     ELSE base[name])

\* ensemble (lines 355-364)
ensemble(methodData) ==
    LET metrics == Get(methodData, "metrics")
    IN  IF Truthy(Get(methodData, "ensemble_performance"))
        THEN methodData.ensemble_performance
        ELSE IF Truthy(Get(methodData, "meta_model_performance"))
        THEN methodData.meta_model_performance
        ELSE IF Truthy(Get(metrics, "Voting Ensemble"))
        THEN metrics["Voting Ensemble"]
        ELSE IF Truthy(Get(metrics, "Stacking Ensemble"))
        THEN metrics["Stacking Ensemble"]
        ELSE Null

\* baseValues of derivedImprovement (lines 373-377)
baseValues(isClassification, methodData) ==
    LET metricKey == IF isClassification THEN "accuracy" ELSE "r2_score"
        enhanced == baseModelsEnhanced(isClassification, methodData)
    IN  {v \in {Get(Get(enhanced, key), metricKey) :
                  key \in {primaryModelKey(isClassification, methodData),
                           "Random Forest", "XGBoost"}} :
            TypeofNumber(v) /\ v # NaN}

\* Variant: the derived improvement is measured against the primary model only
derivedImprovementPrimaryOnly(isClassification, methodData) ==
    LET metricKey == IF isClassification THEN "accuracy" ELSE "r2_score"
        ensembleVal == Get(ensemble(methodData), metricKey)
        first == Get(Get(baseModelsEnhanced(isClassification, methodData),
                         primaryModelKey(isClassification, methodData)), metricKey)
    IN  IF ~(TypeofNumber(first) /\ first # NaN) \/ ~TypeofNumber(ensembleVal)
        THEN Null
        ELSE [kind |-> "object", raw |-> Times(Minus(ensembleVal, first), Num(100))]

\* derivedImprovement (lines 372-386)
derivedImprovement(isClassification, methodData) ==
    LET metricKey == IF isClassification THEN "accuracy" ELSE "r2_score"
        values == baseValues(isClassification, methodData)
        ensembleVal == Get(ensemble(methodData), metricKey)
    IN  IF values = {} \/ ~TypeofNumber(ensembleVal) THEN Null
        ELSE [kind |-> "object",
              raw |-> Times(Minus(ensembleVal, MathMax(values)), Num(100))]

\* improvementRaw (lines 390-392)
improvementRaw(isClassification, methodData) ==
    LET given == Get(ensemble(methodData), "raw_improvement")
    IN  IF TypeofNumber(given) THEN given
        ELSE Nullish(Get(derivedImprovement(isClassification, methodData), "raw"),
                     Null)

\* feature_importance is modelled by its Object.entries: the sequence of
\* [name, value] in property order
Features(entries) == [kind |-> "object", entries |-> entries]

\* Array.prototype.sort with a consistent comparator: a stable sort, so the
\* element at index i moves behind exactly the elements that compare before
\* it and the earlier elements that compare equal to
\* it.  compare[i, j] is the comparator's result on items[i] and items[j].
sort(items, compare) ==
    LET n == Len(items)
        rank(i) == 1 + Cardinality({j \in 1..n :
                         \/ compare[j, i] < 0
                         \/ compare[j, i] = 0 /\ j < i})
    IN  [p \in 1..n |-> items[CHOOSE i \in 1..n : rank(i) = p]]

\* items.slice(0, end)
slice(items, end) == SubSeq(items, 1, IF end < Len(items) THEN end ELSE Len(items))

\* Variant: the five features with the lowest importance
featureListAscending(methodData) ==
    LET importance == Get(methodData, "feature_importance")
    IN  IF ~Truthy(importance) THEN <<>>
        ELSE slice(sort(importance.entries,
                        [i, j \in DOMAIN importance.entries |->
                            Minus(importance.entries[i].value,
                                  importance.entries[j].value).n]), ListTop)

\* the entries of the dashboard's feature list (lines 955-959)
featureList(methodData) ==
    LET importance == Get(methodData, "feature_importance")
    IN  IF ~Truthy(importance) THEN <<>>
        ELSE slice(sort(importance.entries,
                        [i, j \in DOMAIN importance.entries |->
                            Minus(importance.entries[j].value,
                                  importance.entries[i].value).n]), ListTop)

\* toNum (lines 100-103)
toNum(v) == IF isFinite(v) THEN ToNumber(v) ELSE Num(0)

\* the words of a feature name, capitalized and joined by spaces
FeatureNames == <<"f1", "f2", "f3", "f4", "f5", "f6", "f7", "f8", "f9", "f10">>
DisplayNames == <<"F1", "F2", "F3", "F4", "F5", "F6", "F7", "F8", "F9", "F10">>
displayName(name) == DisplayNames[CHOOSE i \in DOMAIN FeatureNames : FeatureNames[i] = name]

\* featureData of InteractiveCharts (lines 119-131), given the prop
\* featureImportance = methodData?.feature_importance || {}
featureData(methodData) ==
    LET featureImportance == OrElse(Get(methodData, "feature_importance"), Features(<<>>))
        mapped == [i \in DOMAIN featureImportance.entries |->
                     LET imp == toNum(featureImportance.entries[i].value)
                     IN  [name |-> displayName(featureImportance.entries[i].name),
                          importance |-> Times(imp, Num(100)),
                          fullImportance |-> imp]]
    IN  IF Len(featureImportance.entries) = 0 THEN <<>>
        ELSE slice(sort(mapped,
                        [i, j \in DOMAIN mapped |->
                            Minus(mapped[j].fullImportance, mapped[i].fullImportance).n]),
                   ChartTop)

DashIdle == [isClassification |-> FALSE, methodData |-> Undef, done |-> FALSE,
             baseModels |-> Undef, improvementRaw |-> Undef,
             featureList |-> <<>>, featureData |-> <<>>]

\* one render of the dashboard: the values it derives and passes on
RenderDashboard ==
    /\ dash.methodData # Undef
    /\ ~dash.done
    /\ dash' = [dash EXCEPT
                  !.done = TRUE,
                  !.baseModels =
                      OrElse(baseModelsEnhanced(dash.isClassification, dash.methodData),
                             EmptyObject),
                  !.improvementRaw =
                      improvementRaw(dash.isClassification, dash.methodData),
                  !.featureList = featureList(dash.methodData),
                  !.featureData = featureData(dash.methodData)]
    /\ UNCHANGED <<formData, cache, dataFile, pc, datasetId, metaLearner, ret, io,
                   procVars, rowsDataset, rowsRet, rowsIo, ex, nz, eb, chk, uiVars>>
(***************************************************************************)
(* ErrorBoundary (components/ErrorBoundary.tsx)                            *)
(***************************************************************************)
Err(message) == [kind |-> "error", message |-> message]
Thrown == {Err("boom"), Err("again")}
\* a React element
Element == [kind |-> "object"]

\* props: fallbackRender and onReset given or not; fallback absent, an empty
\* string or an element
BoundaryProps ==
    [fallbackRender : BOOLEAN, fallback : {Undef, Str(""), Element},
     onReset : BOOLEAN]

\* Variant: the fallback prop is preferred to fallbackRender
renderFallbackFirst(state, props) ==
    IF state.hasError
    THEN IF Truthy(props.fallback) THEN [kind |-> "fallback", error |-> Null]
         ELSE IF props.fallbackRender
         THEN [kind |-> "fallbackRender", error |-> state.error]
         ELSE [kind |-> "builtin", error |-> Null]
    ELSE [kind |-> "children", error |-> Null]

\* render (lines 45-78): what is returned, and the error handed to fallbackRender
render(state, props) ==
    IF state.hasError
    THEN IF props.fallbackRender
         THEN [kind |-> "fallbackRender", error |-> state.error]
         ELSE IF Truthy(props.fallback) THEN [kind |-> "fallback", error |-> Null]
         ELSE [kind |-> "builtin", error |-> Null]
    ELSE [kind |-> "children", error |-> Null]

\* render hands handleReset to fallbackRender and to the built-in button
handsOutReset(rendered) == rendered.kind \in {"fallbackRender", "builtin"}

EbIdle == [props |-> [fallbackRender |-> FALSE, fallback |-> Undef, onReset |-> FALSE],
           state |-> [hasError |-> FALSE, error |-> Null],
           rendered |-> [kind |-> "none", error |-> Null],
           renders |-> 0, resetHandedOut |-> FALSE, resets |-> 0, onResetCalls |-> 0]

ebRest == <<formData, cache, dataFile, pc, datasetId, metaLearner, ret, io,
            procVars, rowsDataset, rowsRet, rowsIo, ex, nz, dash, chk, uiVars>>

\* React renders the boundary (mount, or an update with the parent's props)
RenderBoundary(props) ==
    /\ eb.renders < MaxRenders
    /\ LET rendered == render(eb.state, props)
       IN  eb' = [eb EXCEPT !.props = props,
                            !.rendered = rendered,
                            !.renders = @ + 1,
                            !.resetHandedOut = @ \/ handsOutReset(rendered)]
    /\ UNCHANGED ebRest

\* a descendant throws while the children render: getDerivedStateFromError
\* (lines 29-31), componentDidCatch (lines 33-38, logging only) and the
\* render React performs with the derived state
ChildThrows(error) ==
    /\ eb.rendered.kind = "children"
    /\ eb.renders < MaxRenders
    /\ LET state == [hasError |-> TRUE, error |-> error]
           rendered == render(state, eb.props)
       IN  eb' = [eb EXCEPT !.state = state,
                            !.rendered = rendered,
                            !.renders = @ + 1,
                            !.resetHandedOut = @ \/ handsOutReset(rendered)]
    /\ UNCHANGED ebRest

\* Variant: the reset handler does not call onReset
handleResetSilent ==
    /\ eb.resetHandedOut
    /\ eb.resets < MaxResets
    /\ eb' = [eb EXCEPT !.state = [hasError |-> FALSE, error |-> Null],
                        !.resets = @ + 1]
    /\ UNCHANGED ebRest

\* handleReset (lines 40-43)
handleReset ==
    /\ eb.resetHandedOut
    /\ eb.resets < MaxResets
    /\ eb' = [eb EXCEPT !.state = [hasError |-> FALSE, error |-> Null],
                        !.resets = @ + 1,
                        !.onResetCalls = IF eb.props.onReset THEN @ + 1 ELSE @]
    /\ UNCHANGED ebRest
(***************************************************************************)
(* check_precomputed (ml-scripts/check_precomputed.js)                     *)
(***************************************************************************)
DATASETS == <<"automobile", "concrete", "loan">>
META_LEARNERS == <<"linear", "random_forest", "xgboost">>

\* the file names the two loops build (lines 28-30, 52-55)
CheckedFiles ==
    {VotingFile(d) : d \in Range(DATASETS)} \cup
    {StackingFile(d, m) : d \in Range(DATASETS), m \in Range(META_LEARNERS)}

\* the outcome of one iteration (lines 33-48, 58-73)
checkFile(f) ==
    IF ~existsSync(f) THEN "missing"
    ELSE IF ReadJsonThrows(f) \/ Throws(ReadJson(f)) THEN "invalid JSON"
    ELSE IF Truthy(Get(ReadJson(f), "success")) THEN "valid"
    ELSE "contains error"

\* Variant: only missing files fail the check
exitCodeMissingOnly ==
    IF ~chk.dirExists THEN 1
    ELSE IF \E f \in CheckedFiles : checkFile(f) = "missing" THEN 1
    ELSE 0

\* the code checkPrecomputed exits with (lines 16-21, 81-90)
exitCode ==
    LET totalFiles == Len(DATASETS) + Len(DATASETS) * Len(META_LEARNERS)
        validFiles == Cardinality({f \in CheckedFiles : checkFile(f) = "valid"})
        missingFiles == {f \in CheckedFiles : checkFile(f) = "missing"}
    IN  IF ~chk.dirExists THEN 1
        ELSE IF Cardinality(missingFiles) > 0 THEN 1
        ELSE IF validFiles = totalFiles THEN 0
        ELSE 1

ChkIdle == [started |-> FALSE, dirExists |-> FALSE, done |-> FALSE, exit |-> NoCode]

\* one run of the script
checkPrecomputed ==
    /\ chk.started
    /\ ~chk.done
    /\ chk' = [chk EXCEPT !.done = TRUE, !.exit = exitCode]
    /\ UNCHANGED <<formData, cache, dataFile, pc, datasetId, metaLearner, ret, io,
                   procVars, rowsDataset, rowsRet, rowsIo, ex, nz, dash, eb, uiVars>>

(***************************************************************************)
(* Home (app/page.tsx).  "" stands for null.  A result is told by the      *)
(* request it answers.                                                     *)
(***************************************************************************)
NoResults == [dataset |-> "", metaLearner |-> ""]

\* useState initial values (lines 26-31); no request in flight, no response
\* received, the error boundary not in its error state
PageIdle ==
    [previewDataset |-> "", selectedDataset |-> "", selectedMethod |-> "",
     selectedMetaLearner |-> "", isProcessing |-> FALSE, results |-> NoResults,
     inFlight |-> <<>>, response |-> "none", hasError |-> FALSE]

\* Variant: the method selector stays once a method is selected
MethodScreenAnyMethod(p) ==
    p.selectedDataset # "" /\ ~p.isProcessing /\ p.results = NoResults

\* the conditions of the five screens (lines 139, 148, 157, 265, 274)
MethodScreen(p) ==
    /\ p.selectedDataset # ""
    /\ p.selectedMethod = ""
    /\ ~p.isProcessing
    /\ p.results = NoResults
MetaLearnerScreen(p) ==
    /\ p.selectedDataset # ""
    /\ p.selectedMethod = "stacking"
    /\ p.selectedMetaLearner = ""
    /\ ~p.isProcessing
    /\ p.results = NoResults
PickerScreen(p) ==
    p.selectedDataset = "" /\ ~p.isProcessing /\ p.results = NoResults
ProcessingScreen(p) == p.isProcessing
ResultsScreen(p) ==
    p.results # NoResults /\ ~p.isProcessing /\ p.selectedMethod # ""

Screens(p) ==
    {sc \in {"method", "meta-learner", "picker", "processing", "results"} :
        CASE sc = "method"       -> MethodScreen(p)
          [] sc = "meta-learner" -> MetaLearnerScreen(p)
          [] sc = "picker"       -> PickerScreen(p)
          [] sc = "processing"   -> ProcessingScreen(p)
          [] OTHER               -> ResultsScreen(p)}

\* DatasetPreview isOpen (line 296); the dialog is modal: while it is open
\* the screen under it takes no input
ModalOpen(p) == p.previewDataset # ""
\* a screen's handlers can be invoked: the boundary renders its children and
\* no dialog covers them
Interactive(p) == ~p.hasError /\ ~ModalOpen(p)

pageRest == <<formData, cache, dataFile, pc, datasetId, metaLearner, ret, io,
              procVars, rowsDataset, rowsRet, rowsIo, ex, nz, dash, eb, chk,
              preview, hist>>

PageDatasets == {"automobile", "concrete", "loan"}
PageMethods == {"voting", "stacking"}
PageMetaLearners == {"linear", "random_forest", "xgboost"}

\* handleDatasetClick (lines 42-45)
handleDatasetClick(d) ==
    /\ Interactive(page) /\ PickerScreen(page)
    /\ page' = [page EXCEPT !.previewDataset = d]
    /\ UNCHANGED pageRest

\* onClose of the preview (line 297)
closePreview ==
    /\ ~page.hasError /\ ModalOpen(page)
    /\ page' = [page EXCEPT !.previewDataset = ""]
    /\ UNCHANGED pageRest

\* handleConfirmDataset (lines 47-51)
handleConfirmDataset ==
    /\ ~page.hasError /\ ModalOpen(page)
    /\ page' = [page EXCEPT !.selectedDataset = page.previewDataset,
                            !.previewDataset = ""]
    /\ UNCHANGED pageRest

\* handleSelectDataset (lines 53-56)
handleSelectDataset(d) ==
    /\ Interactive(page) /\ PickerScreen(page)
    /\ page' = [page EXCEPT !.selectedDataset = d]
    /\ UNCHANGED pageRest

\* Variant: the request is always made for the default meta-learner
handleProcessLinear(p, ml) ==
    [p EXCEPT !.isProcessing = TRUE,
              !.inFlight = Append(@, [dataset |-> page.selectedDataset,
                                      metaLearner |-> "linear"])]

\* handleProcess up to its await (lines 71-79): the request carries the
\* selectedDataset of the render the handler belongs to
handleProcess(p, ml) ==
    [p EXCEPT !.isProcessing = TRUE,
              !.inFlight = Append(@, [dataset |-> page.selectedDataset,
                                      metaLearner |-> ml])]

\* handleSelectMethod (lines 58-64)
handleSelectMethod(method) ==
    /\ Interactive(page) /\ MethodScreen(page)
    /\ LET selected == [page EXCEPT !.selectedMethod = method]
       IN  page' = IF method = "voting" THEN handleProcess(selected, "linear")
                   ELSE selected
    /\ UNCHANGED pageRest

\* handleSelectMetaLearner (lines 66-69)
handleSelectMetaLearner(ml) ==
    /\ Interactive(page) /\ MetaLearnerScreen(page)
    /\ page' = handleProcess([page EXCEPT !.selectedMetaLearner = ml], ml)
    /\ UNCHANGED pageRest

\* onBack of the method selector (line 142) and of the meta-learner
\* selector (line 151)
backFromMethod ==
    /\ Interactive(page) /\ MethodScreen(page)
    /\ page' = [page EXCEPT !.selectedDataset = ""]
    /\ UNCHANGED pageRest
backFromMetaLearner ==
    /\ Interactive(page) /\ MetaLearnerScreen(page)
    /\ page' = [page EXCEPT !.selectedMethod = ""]
    /\ UNCHANGED pageRest

\* onBackToMethodSelector (lines 279-284) and onReset (lines 285-291) of the
\* dashboard
onBackToMethodSelector ==
    /\ Interactive(page) /\ ResultsScreen(page)
    /\ page' = [page EXCEPT !.results = NoResults, !.selectedMethod = "",
                            !.selectedMetaLearner = ""]
    /\ UNCHANGED pageRest
onReset ==
    /\ Interactive(page) /\ ResultsScreen(page)
    /\ page' = [page EXCEPT !.results = NoResults, !.selectedDataset = "",
                            !.selectedMethod = "", !.selectedMetaLearner = ""]
    /\ UNCHANGED pageRest

RemoveAt(seq, i) == SubSeq(seq, 1, i - 1) \o SubSeq(seq, i + 1, Len(seq))
Outcomes == {"success", "failure", "threw"}

\* Variant: without the finally block
handleProcessSettlesNoFinally(i, outcome) ==
    /\ i \in 1..Len(page.inFlight)
    /\ LET received == [page EXCEPT !.inFlight = RemoveAt(@, i),
                                    !.response = outcome]
       IN  page' = IF outcome = "success"
                   THEN [received EXCEPT !.results = page.inFlight[i],
                                         !.isProcessing = FALSE]
                   ELSE [received EXCEPT !.selectedDataset = "",
                                         !.selectedMethod = "",
                                         !.selectedMetaLearner = ""]
    /\ UNCHANGED pageRest

\* handleProcess from the settling of its request (lines 79-97): the
\* response has success true, or success false, or the call threw
handleProcessSettles(i, outcome) ==
    /\ i \in 1..Len(page.inFlight)
    /\ LET received == [page EXCEPT !.inFlight = RemoveAt(@, i),
                                    !.response = outcome]
           handled == IF outcome = "success"
                      THEN [received EXCEPT !.results = page.inFlight[i]]
                      ELSE [received EXCEPT !.selectedDataset = "",
                                            !.selectedMethod = "",
                                            !.selectedMetaLearner = ""]
       IN  page' = [handled EXCEPT !.isProcessing = FALSE]
    /\ UNCHANGED pageRest

\* a descendant that renders fetched data throws: the dashboard, or the
\* open preview (ErrorBoundary getDerivedStateFromError)
pageRenderThrows ==
    /\ ~page.hasError
    /\ ResultsScreen(page) \/ ModalOpen(page)
    /\ page' = [page EXCEPT !.hasError = TRUE]
    /\ UNCHANGED pageRest

\* the fallback's buttons: ErrorBoundary handleReset with onReset =
\* resetState (lines 33-40, 102)
resetState ==
    /\ page.hasError
    /\ page' = [page EXCEPT !.previewDataset = "", !.selectedDataset = "",
                            !.selectedMethod = "", !.selectedMetaLearner = "",
                            !.isProcessing = FALSE, !.results = NoResults,
                            !.hasError = FALSE]
    /\ UNCHANGED pageRest

(***************************************************************************)
(* DatasetPreview.  Headers and rows are set together and are told by the  *)
(* dataset they were fetched for; "" stands for null.                      *)
(***************************************************************************)
\* closed, as Home first renders it (page.tsx 295-300), with the initial
\* state of lines 90-92 and no load in flight
PreviewIdle ==
    [isOpen |-> FALSE, datasetId |-> "", fetched |-> "", isLoading |-> FALSE,
     loads |-> <<>>]

previewRest == <<formData, cache, dataFile, pc, datasetId, metaLearner, ret, io,
                 procVars, rowsDataset, rowsRet, rowsIo, ex, nz, dash, eb, chk,
                 page, hist>>

\* the cleanup of the previous effect run (line 108): the load that run
\* started, if it has not returned, is marked cancelled
cleanup(loads) == [i \in DOMAIN loads |-> [loads[i] EXCEPT !.cancelled = TRUE]]

\* the modal is opened for dataset d: new props, then the effect of lines
\* 95-109 runs load() up to its await
openPreview(d) ==
    /\ ~preview.isOpen
    /\ Len(preview.loads) < MaxLoads
    /\ preview' = [preview EXCEPT
                      !.isOpen = TRUE,
                      !.datasetId = d,
                      !.isLoading = TRUE,
                      !.loads = Append(cleanup(@), [dataset |-> d, cancelled |-> FALSE])]
    /\ UNCHANGED previewRest

\* the modal is closed (Close, Analyze Dataset, onOpenChange): new props,
\* then the effect runs load(), which returns at line 98
closePreviewModal ==
    /\ preview.isOpen
    /\ preview' = [preview EXCEPT !.isOpen = FALSE, !.datasetId = "",
                                  !.loads = cleanup(@)]
    /\ UNCHANGED previewRest

\* load() from the return of getDatasetRows (lines 100-105); a call that
\* throws ends load() at line 100
loadReturns(i, outcome) ==
    /\ i \in 1..Len(preview.loads)
    /\ LET load == preview.loads[i]
           returned == [preview EXCEPT !.loads = RemoveAt(@, i)]
       IN  preview' =
               IF outcome = "threw" THEN returned
               ELSE [returned EXCEPT
                       !.fetched = IF ~load.cancelled /\ outcome = "success"
                                   THEN load.dataset ELSE @,
                       !.isLoading = FALSE]
    /\ UNCHANGED previewRest

\* what the open modal displays under the title of datasetId: the dataset
\* whose rows are counted (lines 132, 136, 181) and the dataset whose rows
\* fill the table (lines 158-178); "" = none
countedRows(pv) == pv.fetched
tableRows(pv) == IF ~pv.isLoading THEN pv.fetched ELSE ""

(***************************************************************************)
(* InteractiveCharts: the error-distribution histogram (lines 1008-1033).  *)
(* Errors are integers; a bound minError + i * binSize is compared after   *)
(* both sides are multiplied by binCount, which is exact.                  *)
(***************************************************************************)
binCount == 10
HistIdle == [predictions |-> <<>>, bins |-> <<>>, done |-> FALSE]

histRest == <<formData, cache, dataFile, pc, datasetId, metaLearner, ret, io,
              procVars, rowsDataset, rowsRet, rowsIo, ex, nz, dash, eb, chk,
              page, preview>>

\* errors (line 1010)
errors(predictions) ==
    [k \in DOMAIN predictions |->
        Minus(toNum(predictions[k].predicted), toNum(predictions[k].actual)).n]

\* the count of bin i, i = 0 .. binCount - 1 (lines 1018-1021), with
\* binSize = (maxError - minError) / binCount (lines 1013-1016)
binCountOf(errs, i) ==
    LET minError == Min({errs[k] : k \in DOMAIN errs})
        maxError == Max({errs[k] : k \in DOMAIN errs})
        binStart10 == binCount * minError + i * (maxError - minError)
        binEnd10 == binStart10 + (maxError - minError)
    IN  Cardinality({k \in DOMAIN errs :
                        binCount * errs[k] >= binStart10 /\ binCount * errs[k] < binEnd10})

\* bins (line 1018)
bins(errs) == [i \in 1..binCount |-> binCountOf(errs, i - 1)]

\* the chart is rendered for the predictions it was given
renderHistogram ==
    /\ ~hist.done
    /\ hist.predictions # <<>>
    /\ hist' = [hist EXCEPT !.bins = bins(errors(hist.predictions)), !.done = TRUE]
    /\ UNCHANGED histRest


(***************************************************************************)
(* Specifications                                                          *)
(***************************************************************************)
IsVotingFile(f) == Len(f) = 2

\* The cache directories the model starts from: the voting files are all of
\* one kind and the stacking files are all of one kind, and either the two
\* kinds are equal or one of them is a well-formed file.

NoForm == [dataset |-> "", meta_learner |-> ""]

InitProgram ==
    /\ formData = NoForm
    /\ rowsDataset = ""
    /\ pc = "idle"
    /\ datasetId = ""
    /\ metaLearner = ""
    /\ ret = NoRet
    /\ io = {}
    /\ child = NoChild
    /\ stdout = <<>>
    /\ stderr = <<>>
    /\ completed = FALSE
    /\ timer = "none"
    /\ promise = Pending
    /\ rowsRet = NoRet
    /\ rowsIo = {}

\* the components and scripts outside app/actions at rest
InitUi ==
    /\ page = PageIdle
    /\ preview = PreviewIdle
    /\ hist = HistIdle

InitAux ==
    /\ nz = NzIdle
    /\ dash = DashIdle
    /\ eb = EbIdle
    /\ chk = ChkIdle
    /\ InitUi

Init ==
    /\ InitProgram
    /\ InitAux
    /\ \E kv \in CacheKinds, ks \in CacheKinds :
          /\ kv = ks \/ kv = "full" \/ ks = "full"
          /\ cache = [f \in CacheFileNames |->
                     CacheContent(IF IsVotingFile(f) THEN kv ELSE ks, FileDataset(f))]
    /\ \E k \in DataFileKinds : dataFile = [n \in DataFileNames |-> k]
    /\ ex = ExIdle

callVars == <<formData, cache, dataFile, pc, datasetId, metaLearner, ret, io,
              rowsDataset, rowsRet, rowsIo, ex, auxVars>>

TimerFires == OnTimeout /\ UNCHANGED callVars
StdoutData == \E data \in StdoutChunks : OnStdoutData(data) /\ UNCHANGED callVars
StderrData == \E data \in StderrChunks : OnStderrData(data) /\ UNCHANGED callVars
ProcessCloses == \E code \in ExitCodes : OnClose(code) /\ UNCHANGED callVars
ProcessErrors == OnError /\ UNCHANGED callVars
ProcessRequest ==
    \E d \in DatasetInputs, m \in MetaLearnerInputs : CallProcessDataset(d, m)
RowsRequest == \E d \in DatasetInputs : CallGetDatasetRows(d)

Next ==
    \/ ProcessRequest
    \/ ResumeProcessDataset
    \/ TimerFires
    \/ StdoutData
    \/ StderrData
    \/ ProcessCloses
    \/ ProcessErrors
    \/ RowsRequest

Spec == Init /\ [][Next]_vars

\* The same program when the timer callback runs once it is due and the
\* awaiting call is resumed once its promise has settled; the child process
\* is under no obligation to emit anything.  The precomputed files are absent
\* and the dataset files readable, so that every valid request runs the script.
InitFair ==
    /\ InitProgram
    /\ InitAux
    /\ ex = ExIdle
    /\ cache = [f \in CacheFileNames |-> CacheContent("missing", FileDataset(f))]
    /\ dataFile = [n \in DataFileNames |->
                      [stat |-> "ok", size |-> MAX_DATASET_FILE_SIZE_BYTES,
                       read |-> "ok"]]

\* the steps of ResumeProcessDataset, told by pc alone: the continuation
\* of the await runs once the promise has settled (lines 285-292)
AwaitResumes ==
    /\ pc = "awaiting"
    /\ promise.state # "pending"
    /\ pc' = "returned"

SpecFair ==
    /\ InitFair
    /\ [][Next]_vars
    /\ WF_vars(TimerFires)
    /\ WF_pc(AwaitResumes)

InitExtract ==
    /\ InitProgram
    /\ cache = [f \in CacheFileNames |-> CacheContent("missing", FileDataset(f))]
    /\ dataFile = [n \in DataFileNames |->
                      [stat |-> "throws", size |-> 0, read |-> "throws"]]
    /\ InitAux
    /\ \E str \in SeqsUpTo(MaxExtractLen, ExtractAlphabet) :
          \E i \in 0..Len(str) : \E j \in i..Len(str) :
             ex = [ExIdle EXCEPT !.pre = SubSeq(str, 1, i),
                                 !.payload = SubSeq(str, i + 1, j),
                                 !.post = SubSeq(str, j + 1, Len(str))]

NextExtract == ExtractStep

SpecExtract == InitExtract /\ [][NextExtract]_vars

\* Result normalization: a parsed pipeline output of a classification or a
\* regression dataset, or a cache directory holding precomputed documents
NoCache == [f \in CacheFileNames |-> CacheContent("missing", FileDataset(f))]
NoDataFiles ==
    [n \in DataFileNames |-> [stat |-> "throws", size |-> 0, read |-> "throws"]]

InitNormalize ==
    /\ InitProgram
    /\ InitUi
    /\ dataFile = NoDataFiles
    /\ ex = ExIdle
    /\ dash = DashIdle
    /\ eb = EbIdle
    /\ chk = ChkIdle
    /\ \/ /\ cache = NoCache
          /\ \E d \in {"loan", "concrete"}, wrapped \in BOOLEAN,
                field \in {"metrics", "base_models"}, n \in PredictionCounts,
                lr \in MetricValues \cup {Absent}, rf \in {Absent, Num(1)},
                ensV \in MetricValues \cup {Absent},
                ensS \in MetricValues \cup {Absent}, upper \in {Absent, Num(2)} :
                nz = [NzIdle EXCEPT
                        !.source = "live",
                        !.dataset = d,
                        !.pythonResults =
                            PipelineResults(wrapped,
                                PipelinePart(field,
                                    MetricsObject(lr, rf, ensV, "Voting Ensemble", upper), n),
                                PipelinePart(field,
                                    MetricsObject(lr, rf, ensS, "Stacking Ensemble", upper),
                                    n))]
       \/ \E d \in {"loan", "concrete"}, lr \in 0..2, e \in 0..2,
              n \in PredictionCounts :
             /\ cache = [f \in CacheFileNames |->
                            IF FileDataset(f) = d THEN CachedDocument(d, lr, e, n)
                            ELSE CacheContent("missing", FileDataset(f))]
             /\ nz = [NzIdle EXCEPT !.source = "cache", !.dataset = d]

NextNormalize == NormalizeLive \/ NormalizeCached

SpecNormalize == InitNormalize /\ [][NextNormalize]_vars

\* Dashboard: the selected method's data of a result, varying either its
\* metrics and predictions or its feature importances
ErrorValues == {Undef, Num(0), Num(4)}
ScoreValues == {Undef, Num(1), Num(3), Str("2")}
\* importances: three values for the lists that reach just past the cut of
\* the dashboard list, two values for the longer ones
ImportanceValues(n) ==
    IF n <= ListTop + 1 THEN {Num(1), Num(2), Num(3)} ELSE {Num(1), Num(2)}

\* prediction samples: none, rows one or two off for every model, and a
\* row without predictions
PredictionSamples ==
    LET row(a, p) == [kind |-> "object", actual |-> Num(a), linear_reg |-> Num(p),
                      random_forest |-> Num(p), xgboost |-> Num(p)]
    IN  {<<>>, <<row(5, 4)>>, <<row(5, 3), row(1, 3)>>,
         <<[kind |-> "object", actual |-> Num(5)]>>}

\* one base model: its primary metric, rmse and mae (Undef = field absent)
BaseModel(metricKey, score, rmse, mae) ==
    LET fields == [f \in {metricKey, "rmse", "mae"} |->
                      CASE f = metricKey -> score
                        [] f = "rmse"    -> rmse
                        [] OTHER         -> mae]
    IN  Obj({f \in DOMAIN fields : fields[f] # Undef}, LAMBDA f : fields[f])

\* the ensemble's metrics under one of the two field names, or absent
MethodData(base, perfField, perf, preds, features) ==
    LET fields == [f \in {"base_models", "predictions_sample", "feature_importance",
                          perfField} |->
                      CASE f = "base_models"        -> base
                        [] f = "predictions_sample" -> Arr(preds)
                        [] f = "feature_importance" -> features
                        [] OTHER                    -> perf]
    IN  Obj({f \in DOMAIN fields : fields[f] # Undef}, LAMBDA f : fields[f])

InitDashboard ==
    /\ InitProgram
    /\ InitUi
    /\ cache = NoCache
    /\ dataFile = NoDataFiles
    /\ ex = ExIdle
    /\ nz = NzIdle
    /\ eb = EbIdle
    /\ chk = ChkIdle
    /\ \/ \E isClassification \in BOOLEAN,
             first \in {"Linear Regression", "Logistic Regression"},
             score1 \in ScoreValues, rmse1 \in ErrorValues, mae1 \in {Undef, Num(3)},
             score2 \in {Undef, Num(2)}, rmse2 \in {Undef, Num(4)},
             withThird \in BOOLEAN,
             perfField \in {"ensemble_performance", "meta_model_performance"},
             ensembleVal \in {Absent, Undef, Num(4), Str("2")},
             given \in {Undef, Num(7), NaN},
             preds \in PredictionSamples :
             LET metricKey == IF isClassification THEN "accuracy" ELSE "r2_score"
                 names == {first, "Random Forest"} \cup
                          (IF withThird THEN {"XGBoost"} ELSE {})
                 base == Obj(names, LAMBDA k :
                            CASE k = first -> BaseModel(metricKey, score1, rmse1, mae1)
                              [] k = "Random Forest" ->
                                    BaseModel(metricKey, score2, rmse2, Num(3))
                              [] OTHER -> BaseModel(metricKey, Num(1), Num(4), Num(3)))
                 perf == IF ensembleVal = Absent THEN Undef
                         ELSE BaseModel(metricKey, ensembleVal, Undef, Undef) @@
                              (IF given = Undef THEN <<>>
                               ELSE [raw_improvement |-> given])
             IN  dash = [DashIdle EXCEPT
                           !.isClassification = isClassification,
                           !.methodData =
                               MethodData(base, perfField, perf, preds, Features(<<>>))]
       \/ \E n \in 0..MaxFeatures : \E values \in [1..n -> ImportanceValues(n)] :
             dash = [DashIdle EXCEPT
                       !.methodData =
                           MethodData(EmptyObject, "ensemble_performance", Undef, <<>>,
                               Features([i \in 1..n |->
                                   [name |-> FeatureNames[i], value |-> values[i]]]))]

NextDashboard == RenderDashboard

SpecDashboard == InitDashboard /\ [][NextDashboard]_vars

\* ErrorBoundary: mounted with any props, then rendered, thrown into and reset
InitBoundary ==
    /\ InitProgram
    /\ InitUi
    /\ cache = NoCache
    /\ dataFile = NoDataFiles
    /\ ex = ExIdle
    /\ nz = NzIdle
    /\ dash = DashIdle
    /\ chk = ChkIdle
    /\ \E props \in BoundaryProps : eb = [EbIdle EXCEPT !.props = props]

Rerender == \E props \in BoundaryProps : RenderBoundary(props)
DescendantThrows == \E error \in Thrown : ChildThrows(error)

NextBoundary == Rerender \/ DescendantThrows \/ handleReset

SpecBoundary == InitBoundary /\ [][NextBoundary]_vars

\* check_precomputed: the results directory is absent, or it holds files of
\* one kind except for one file of another kind
InitCheck ==
    /\ InitProgram
    /\ InitUi
    /\ dataFile = NoDataFiles
    /\ ex = ExIdle
    /\ nz = NzIdle
    /\ dash = DashIdle
    /\ eb = EbIdle
    /\ \/ /\ chk = [ChkIdle EXCEPT !.started = TRUE]
          /\ cache = NoCache
       \/ /\ chk = [ChkIdle EXCEPT !.started = TRUE, !.dirExists = TRUE]
          /\ \E k \in CacheKinds, other \in CacheKinds, odd \in CacheFileNames :
                cache = [f \in CacheFileNames |->
                            CacheContent(IF f = odd THEN other ELSE k, FileDataset(f))]

NextCheck == checkPrecomputed

SpecCheck == InitCheck /\ [][NextCheck]_vars

\* The cache check and the cache reader over one results directory: the
\* voting files are of one kind and the stacking files are of one kind
InitCache ==
    /\ InitProgram
    /\ InitUi
    /\ ex = ExIdle
    /\ nz = NzIdle
    /\ dash = DashIdle
    /\ eb = EbIdle
    /\ chk = [ChkIdle EXCEPT !.started = TRUE, !.dirExists = TRUE]
    /\ \E kv \in CacheKinds \cup TaggedKinds, ks \in CacheKinds \cup TaggedKinds :
          cache = [f \in CacheFileNames |->
                      CacheFile(IF IsVotingFile(f) THEN kv ELSE ks, f)]
    /\ \E k \in DataFileKinds : dataFile = [n \in DataFileNames |-> k]

NextCache == ProcessRequest \/ checkPrecomputed

SpecCache == InitCache /\ [][NextCache]_vars

\* Home from its first render, under every order of clicks and responses
InitPage ==
    /\ InitProgram
    /\ InitAux
    /\ ex = ExIdle
    /\ cache = NoCache
    /\ dataFile = NoDataFiles

PreviewClicked == \E d \in PageDatasets : handleDatasetClick(d)
DatasetClicked == \E d \in PageDatasets : handleSelectDataset(d)
MethodClicked == \E method \in PageMethods : handleSelectMethod(method)
MetaLearnerClicked == \E ml \in PageMetaLearners : handleSelectMetaLearner(ml)
RequestSettles ==
    \E i \in 1..Len(page.inFlight), outcome \in Outcomes : handleProcessSettles(i, outcome)

NextPage ==
    \/ PreviewClicked
    \/ closePreview
    \/ handleConfirmDataset
    \/ DatasetClicked
    \/ MethodClicked
    \/ MetaLearnerClicked
    \/ backFromMethod
    \/ backFromMetaLearner
    \/ onBackToMethodSelector
    \/ onReset
    \/ RequestSettles
    \/ pageRenderThrows
    \/ resetState

SpecPage == InitPage /\ [][NextPage]_vars

\* DatasetPreview under every order of openings, closings and responses
InitPreview ==
    /\ InitProgram
    /\ InitAux
    /\ ex = ExIdle
    /\ cache = NoCache
    /\ dataFile = NoDataFiles

PreviewOpens == \E d \in PageDatasets : openPreview(d)
LoadReturns ==
    \E i \in 1..Len(preview.loads), outcome \in Outcomes : loadReturns(i, outcome)

NextPreview == PreviewOpens \/ closePreviewModal \/ LoadReturns

SpecPreview == InitPreview /\ [][NextPreview]_vars

\* The histogram for every non-empty list of predictions
InitHistogram ==
    /\ InitProgram
    /\ ex = ExIdle
    /\ cache = NoCache
    /\ dataFile = NoDataFiles
    /\ nz = NzIdle
    /\ dash = DashIdle
    /\ eb = EbIdle
    /\ chk = ChkIdle
    /\ page = PageIdle
    /\ preview = PreviewIdle
    /\ \E n \in 1..MaxHistPredictions :
          \E predictions \in [1..n -> [predicted : {Num(0), Num(1), Num(3), Str("2")},
                                       actual : {Num(0), Num(1)}]] :
             hist = [HistIdle EXCEPT !.predictions = predictions]

NextHistogram == renderHistogram

SpecHistogram == InitHistogram /\ [][NextHistogram]_vars

(***************************************************************************)
(* Properties                                                              *)
(***************************************************************************)
Returned == pc = "returned"
Failed == Returned /\ ~ret.success
Defined(v) == v # Undef
ListedDatasets == {"automobile", "concrete", "loan"}
ListedMetaLearners == {"linear", "random_forest", "xgboost"}
ValidRequest == datasetId \in ListedDatasets /\ metaLearner \in ListedMetaLearners
RequestedFile == dataFile[DATASET_FILES[datasetId]]
Rejected(msg) == [state |-> "rejected", value |-> msg]
EndsWith(msg, tail) ==
    /\ Len(tail) <= Len(msg)
    /\ SubSeq(msg, Len(msg) - Len(tail) + 1, Len(msg)) = tail

\* C1 (as claimed): every call that has returned gave either
\* {success:false, error} or {success:true, data} with data.voting,
\* data.stacking and an object data.dataset_info all present.
C1_ErrorOrFullPayload ==
    Returned =>
        \/ /\ ~ret.success
           /\ DOMAIN ret = {"success", "error"}
        \/ /\ ret.success
           /\ DOMAIN ret = {"success", "data"}
           /\ Defined(ret.data.voting)
           /\ Defined(ret.data.stacking)
           /\ isRecord(ret.data.dataset_info)

\* C2 (as claimed): when the live path is reached and the dataset file is
\* larger than the maximum, the call fails with an error containing
\* "Dataset file exceeds allowed size" and spawns no process.
C2_TooLargeIsReported ==
    (/\ Returned
     /\ "statSync" \in io
     /\ RequestedFile.stat = "ok"
     /\ RequestedFile.size > MAX_DATASET_FILE_SIZE_BYTES)
    => /\ ~ret.success
       /\ Contains(ret.error, "Dataset file exceeds allowed size")
       /\ "spawn" \notin io

RowsReturned == rowsRet # NoRet

\* C3 (as claimed): for every dataset id outside the whitelist, the empty
\* one included, both actions fail with "Invalid dataset" before any
\* file-system or process call.
C3_EveryUnlistedIdIsInvalidDataset ==
    /\ (Returned /\ formData.dataset \notin ListedDatasets)
         => /\ ~ret.success
            /\ Contains(ret.error, "Invalid dataset")
            /\ io = {}
    /\ (RowsReturned /\ rowsDataset \notin ListedDatasets)
         => /\ ~rowsRet.success
            /\ Contains(rowsRet.error, "Invalid dataset")
            /\ rowsIo = {}

\* C3 (amended): for every non-empty dataset id outside the whitelist both
\* actions fail with "Invalid dataset" before any file-system or process
\* call; an empty or missing id fails as early with "No dataset selected"
\* (processDataset) or "No dataset specified" (getDatasetRows).
C3_UnlistedIdIsRejectedFirst ==
    /\ (Returned /\ formData.dataset \notin ListedDatasets)
         => /\ ~ret.success
            /\ io = {}
            /\ IF formData.dataset = ""
               THEN ret.error = <<"No dataset selected">>
               ELSE Contains(ret.error, "Invalid dataset")
    /\ (RowsReturned /\ rowsDataset \notin ListedDatasets)
         => /\ ~rowsRet.success
            /\ rowsIo = {}
            /\ IF rowsDataset = ""
               THEN rowsRet.error = <<"No dataset specified">>
               ELSE Contains(rowsRet.error, "Invalid dataset")

C3_Witness ==
    \/ Returned /\ formData.dataset = "iris"
    \/ RowsReturned /\ rowsDataset = "iris"

\* C4: with a whitelisted dataset, a non-empty meta_learner outside the
\* allowed three fails with "Invalid meta-learner" before the cache is
\* looked up or a process is spawned; an empty or missing meta_learner
\* becomes "linear" and passes validation (the cache is looked up).
C4_MetaLearnerValidation ==
    (Returned /\ formData.dataset \in ListedDatasets) =>
        /\ (formData.meta_learner # "" /\ formData.meta_learner \notin ListedMetaLearners)
             => /\ ~ret.success
                /\ Contains(ret.error, "Invalid meta-learner")
                /\ io = {}
        /\ formData.meta_learner = ""
             => /\ metaLearner = "linear"
                /\ "existsSync" \in io
                /\ ret.success \/ ~Contains(ret.error, "Invalid meta-learner")

C4_Witness ==
    /\ Returned
    /\ formData.dataset = "concrete"
    /\ formData.meta_learner = "svm"

\* The pipeline printed a {success:false, error:m} document and exited 0
PipelineReportedOnStdout ==
    /\ promise.state = "resolved"
    /\ ~extractJsonFromStdout(promise.value).threw
    /\ JSONparse(extractJsonFromStdout(promise.value).value) = PyValue("error")

\* The pipeline wrote m to stderr and exited with a non-zero code
PipelineReportedOnStderr ==
    /\ promise.state = "rejected"
    /\ child.state = "closed"
    /\ child.exitCode # 0
    /\ promise.value = ExitMsg(child.exitCode, stderr)
    /\ Contains(stderr, PipelineMessage)

\* C5 (as claimed): a fatal pipeline error reported on stderr with a
\* non-zero exit, or as a {success:false, error:m} document on stdout,
\* makes processDataset fail with an error that contains m.
C5_PipelineErrorVerbatim ==
    (Returned /\ (PipelineReportedOnStdout \/ PipelineReportedOnStderr))
    => /\ ~ret.success
       /\ Contains(ret.error, PipelineMessage)

\* C6: the timer is armed exactly while the script has not completed; once
\* it has fired the child has been sent SIGTERM and the promise is rejected
\* with the timed-out message, in every later state (a close event after
\* it included), and processDataset returns success=false with it.
C6_TimeoutIsFinal ==
    /\ (child.state # "none" /\ ~completed) => timer = "armed"
    /\ timer = "armed" => ~completed /\ promise.state = "pending"
    /\ timer = "fired"
         => /\ completed
            /\ child.kills >= 1
            /\ promise = Rejected(TimeoutMsg)
            /\ Returned => ret = Fail(PythonFailedMsg(TimeoutMsg))

C6_Witness ==
    /\ timer = "fired"
    /\ child.state = "closed"
    /\ child.exitCode = 0
    /\ Returned

\* C7: the promise never resolves with more than PYTHON_STDOUT_MAX_BYTES of
\* stdout; the accumulated stdout exceeds the limit exactly when the
\* overflow branch ran: SIGTERM sent, timer cleared, promise rejected with
\* the size-limit message.
C7_StdoutIsCapped ==
    /\ promise.state = "resolved" => Len(promise.value) <= PYTHON_STDOUT_MAX_BYTES
    /\ Len(stdout) > PYTHON_STDOUT_MAX_BYTES
         => /\ completed
            /\ child.kills = 1
            /\ timer = "cleared"
            /\ promise = Rejected(OverflowMsg)
    /\ promise = Rejected(OverflowMsg) => Len(stdout) > PYTHON_STDOUT_MAX_BYTES

C7_Witness ==
    /\ Len(stdout) > PYTHON_STDOUT_MAX_BYTES
    /\ child.state = "closed"

\* No timeout, stdout overflow or spawn error has happened
NothingBeforeClose ==
    /\ timer # "fired"
    /\ Len(stdout) <= PYTHON_STDOUT_MAX_BYTES
    /\ ~child.errored

C9_AnyLogText ==
    ex.done => ex.result = ExtractValue(trim(ex.payload))

\* C9 (amended): when the log text before the start marker contains neither
\* marker and the payload does not contain the end marker, the function
\* returns exactly the trimmed payload, whatever follows the end marker.
C9_CleanPrefix ==
    (/\ ex.done
     /\ ~Contains(ex.pre, markerStart)
     /\ ~Contains(ex.pre, markerEnd)
     /\ ~Contains(ex.payload, markerEnd))
    => ex.result = ExtractValue(trim(ex.payload))

C9_Witness ==
    /\ ex.done
    /\ ex.pre = <<"x">>
    /\ ex.payload = <<Whitespace, "{">>
    /\ ex.post = <<markerEnd>>
    /\ ex.result = ExtractValue(<<"{">>)

VotingFileRead == cache[VotingFile(datasetId)]
StackingFileRead == cache[StackingFile(datasetId, metaLearner)]
BothFilesExist == VotingFileRead.exists /\ StackingFileRead.exists
Unusable(f) == ~f.readable \/ f.json = SyntaxError

\* C10 (as claimed): when both files exist and one of them cannot be read
\* or parsed or does not carry success = true, the call goes on to the
\* live path (the dataset file is stat-ed).
C10_NotTrueFallsBack ==
    (/\ pc # "idle"
     /\ ValidRequest
     /\ BothFilesExist
     /\ \/ Unusable(VotingFileRead) \/ Unusable(StackingFileRead)
        \/ Get(VotingFileRead.json, "success") # JTrue
        \/ Get(StackingFileRead.json, "success") # JTrue)
    => "statSync" \in io

\* C10 (amended): when both files exist and one of them cannot be read or
\* parsed or carries no truthy success, the call goes on to the live path
\* for the same dataset and meta-learner; any error returned after
\* validation comes from the live path, never from the cache alone.
C10_InvalidCacheFallsBack ==
    /\ (/\ pc # "idle"
        /\ ValidRequest
        /\ BothFilesExist
        /\ \/ Unusable(VotingFileRead) \/ Unusable(StackingFileRead)
           \/ ~Truthy(Get(VotingFileRead.json, "success"))
           \/ ~Truthy(Get(StackingFileRead.json, "success")))
       => "statSync" \in io
    /\ (Failed /\ ValidRequest) => "statSync" \in io

C10_Witness ==
    /\ pc = "awaiting"
    /\ BothFilesExist
    /\ Unusable(StackingFileRead)

(***************************************************************************)
(* Result payloads (SpecNormalize)                                         *)
(***************************************************************************)
\* a success payload has been built
Built == nz.done /\ nz.error = <<>>
BuiltParts == IF Built THEN {nz.data.voting, nz.data.stacking} ELSE {}
\* ensemble_performance (voting) or meta_model_performance (stacking)
EnsembleMetrics(part) ==
    IF HasField(part, "ensemble_performance") THEN part.ensemble_performance
    ELSE Get(part, "meta_model_performance")
IsNumber(v) == v.kind = "number"
\* model names that include "ensemble" in some letter case
EnsembleNamed == {"Voting Ensemble", "Stacking Ensemble", "ENSEMBLE"}
NumericFields == {"accuracy", "precision", "recall", "f1_score"}

\* C11: in every result in which raw_improvement, the ensemble's primary
\* metric and the base models' primary metrics are present (numbers),
\* raw_improvement = (ensemble metric - greatest base_models metric) * 100.
C11_RawImprovementIsGainOverBestBase ==
    \A part \in BuiltParts :
        LET metric == PrimaryMetric(nz.dataset)
            perf == EnsembleMetrics(part)
            base == Get(part, "base_models")
        IN  (/\ IsNumber(Get(perf, "raw_improvement"))
             /\ IsNumber(Get(perf, metric))
             /\ Keys(base) # {}
             /\ \A k \in Keys(base) : IsNumber(Get(base[k], metric)))
            => \E best \in Keys(base) :
                  /\ \A k \in Keys(base) : base[k][metric].n <= base[best][metric].n
                  /\ perf.raw_improvement.n =
                        (perf[metric].n - base[best][metric].n) * 100

C13_AtMostTenPredictions ==
    \A part \in BuiltParts :
        Get(part, "predictions_sample").kind = "array" =>
            Len(part.predictions_sample.items) <= 10

\* C14: every numeric field of a normalized classification payload is a
\* finite number or null.
C14_NumericFieldsAreFiniteOrNull ==
    (Built /\ nz.source = "live" /\ nz.dataset = "loan") =>
        \A part \in BuiltParts :
            /\ \A f \in NumericFields \cup {"raw_improvement"} :
                  Get(EnsembleMetrics(part), f).kind \in {"number", "null"}
            /\ \A k \in Keys(part.base_models) : \A f \in NumericFields :
                  Get(part.base_models[k], f).kind \in {"number", "null"}

(***************************************************************************)
(* Dashboard values (SpecDashboard)                                        *)
(***************************************************************************)
RegressionModels == {"Linear Regression", "Random Forest", "XGBoost"}
\* the base models the result came with
GivenBaseModels == Get(dash.methodData, "base_models")
\* the ensemble metrics the result came with
GivenEnsemble ==
    IF HasField(dash.methodData, "ensemble_performance")
    THEN dash.methodData.ensemble_performance
    ELSE Get(dash.methodData, "meta_model_performance")

\* C15: a base model whose RMSE or MAE the dashboard filled in from
\* predictions_sample is marked approximate in the base models handed to
\* InteractiveCharts.
C15_FilledValuesAreMarkedApproximate ==
    dash.done =>
        \A name \in RegressionModels :
            (\E f \in {"rmse", "mae"} :
                /\ Get(Get(GivenBaseModels, name), f) = Undef
                /\ Get(Get(dash.baseModels, name), f) # Undef)
            => Truthy(Get(Get(dash.baseModels, name), "isApproximate"))

PrimaryMetricKey == IF dash.isClassification THEN "accuracy" ELSE "r2_score"
\* the primary metrics of the three base models that are numbers
BaseNumbers ==
    LET first == IF dash.isClassification
                    /\ HasField(GivenBaseModels, "Logistic Regression")
                 THEN "Logistic Regression" ELSE "Linear Regression"
    IN  {Get(Get(GivenBaseModels, k), PrimaryMetricKey).n :
            k \in {k \in {first, "Random Forest", "XGBoost"} :
                      IsNumber(Get(Get(GivenBaseModels, k), PrimaryMetricKey))}}
HasGivenImprovement == Get(GivenEnsemble, "raw_improvement").kind \in {"number", "NaN"}
Derivable == IsNumber(Get(GivenEnsemble, PrimaryMetricKey)) /\ BaseNumbers # {}

\* C16: a raw_improvement of type number is used unchanged; otherwise, when
\* the ensemble's primary metric and that of one of the three base models
\* are numbers, the improvement is (ensemble - greatest base) * 100; it is
\* null only when neither source exists.
C16_ImprovementGivenOrDerived ==
    dash.done =>
        /\ HasGivenImprovement =>
              dash.improvementRaw = GivenEnsemble.raw_improvement
        /\ (~HasGivenImprovement /\ Derivable) =>
              \E best \in BaseNumbers :
                 /\ \A v \in BaseNumbers : v <= best
                 /\ dash.improvementRaw =
                       Num((GivenEnsemble[PrimaryMetricKey].n - best) * 100)
        /\ dash.improvementRaw = Null => (~HasGivenImprovement /\ ~Derivable)

\* no raw_improvement given; the best base model is not the primary one
C16_Witness ==
    /\ dash.done
    /\ ~HasGivenImprovement
    /\ BaseNumbers = {1, 2}
    /\ Get(Get(GivenBaseModels, "Random Forest"), PrimaryMetricKey) = Num(2)
    /\ dash.improvementRaw = Num(200)

GivenFeatures == Get(dash.methodData, "feature_importance").entries
\* out holds the first N features of GivenFeatures ordered by descending
\* importance, equal importances in their original order; index(p) is the
\* original position of out[p] and value(p) its importance
IsRanking(out, N, index(_), value(_)) ==
    LET n == Len(GivenFeatures)
        before(v, i, w, j) == v > w \/ (v = w /\ i < j)
    IN  /\ Len(out) = IF N < n THEN N ELSE n
        /\ \A p \in DOMAIN out :
              /\ index(p) \in 1..n
              /\ value(p) = GivenFeatures[index(p)].value.n
        /\ \A p, q \in DOMAIN out :
              p < q => before(value(p), index(p), value(q), index(q))
        /\ \A i \in 1..n :
              (\A p \in DOMAIN out : index(p) # i) =>
                  \A p \in DOMAIN out :
                      before(value(p), index(p), GivenFeatures[i].value.n, i)

\* C17: the dashboard list holds the 5 and the bar chart the 8 features of
\* highest importance in descending order, equal importances in their
\* original order, a tie at the cut going to the earlier feature.
C17_TopFeaturesStableDescending ==
    dash.done =>
        /\ IsRanking(dash.featureList, 5,
                LAMBDA p : CHOOSE i \in DOMAIN FeatureNames :
                               FeatureNames[i] = dash.featureList[p].name,
                LAMBDA p : dash.featureList[p].value.n)
        /\ IsRanking(dash.featureData, 8,
                LAMBDA p : CHOOSE i \in DOMAIN DisplayNames :
                               DisplayNames[i] = dash.featureData[p].name,
                LAMBDA p : dash.featureData[p].fullImportance.n)

\* nine features of importances 1,2,1,2,1,2,1,2,2: ties inside both
\* rankings and at the cut of the bar chart
C17_Witness ==
    /\ dash.done
    /\ Len(GivenFeatures) = 9
    /\ [p \in 1..5 |-> dash.featureList[p].name] = <<"f2", "f4", "f6", "f8", "f9">>
    /\ [p \in 1..8 |-> dash.featureData[p].name] =
          <<"F2", "F4", "F6", "F8", "F9", "F1", "F3", "F5">>

(***************************************************************************)
(* ErrorBoundary (SpecBoundary)                                            *)
(***************************************************************************)
\* C18: after a descendant has thrown the boundary holds hasError = TRUE
\* with the thrown error, every render returns the fallback (fallbackRender
\* with the error if given, else the fallback prop, else the built-in
\* message), and this lasts until the reset handler is invoked.
C18_ErrorStateHoldsUntilReset ==
    /\ [](eb.state.hasError =>
            /\ eb.state.error \in {Err("boom"), Err("again")}
            /\ IF eb.props.fallbackRender
               THEN eb.rendered = [kind |-> "fallbackRender", error |-> eb.state.error]
               ELSE IF eb.props.fallback = Element THEN eb.rendered.kind = "fallback"
               ELSE IF eb.props.fallback = Undef THEN eb.rendered.kind = "builtin"
               ELSE eb.rendered.kind # "children")
    /\ [][(eb.state.hasError /\ eb'.resets = eb.resets) =>
             eb'.state = eb.state]_vars
    /\ [][(~eb.state.hasError /\ eb'.state.hasError) =>
             /\ eb.rendered.kind = "children"
             /\ eb'.rendered.kind # "children"]_vars

\* the error state after two re-renders with changed props
C18_Witness ==
    /\ eb.state = [hasError |-> TRUE, error |-> Err("again")]
    /\ eb.renders = 4
    /\ eb.resets = 0
    /\ eb.props.fallback = Element
    /\ ~eb.props.fallbackRender
    /\ eb.rendered.kind = "fallback"
    /\ eb.resetHandedOut

\* C19: every invocation of the reset handler clears the error state and
\* calls onReset exactly once; no other transition calls onReset.
C19_ResetClearsAndCallsOnResetOnce ==
    /\ [][eb'.resets # eb.resets =>
             /\ eb'.resets = eb.resets + 1
             /\ eb'.state = [hasError |-> FALSE, error |-> Null]
             /\ eb.props.onReset => eb'.onResetCalls = eb.onResetCalls + 1]_vars
    /\ [][eb'.onResetCalls # eb.onResetCalls =>
             /\ eb'.resets = eb.resets + 1
             /\ eb'.onResetCalls = eb.onResetCalls + 1]_vars

\* two resets of a boundary with onReset, the error caught again in between
C19_Witness ==
    /\ eb.resets = 2
    /\ eb.onResetCalls = 2
    /\ eb.props.onReset
    /\ eb.state = [hasError |-> FALSE, error |-> Null]
    /\ eb.renders = 4

(***************************************************************************)
(* check_precomputed (SpecCheck)                                           *)
(***************************************************************************)
ExpectedFiles ==
    {<<d, "-voting.json">> : d \in ListedDatasets} \cup
    {<<d, "-stacking-", m, ".json">> : d \in ListedDatasets, m \in ListedMetaLearners}
\* the file exists, parses as JSON and has a truthy success field
UsableFile(f) ==
    /\ f \in DOMAIN cache
    /\ cache[f].exists
    /\ cache[f].readable
    /\ cache[f].json # SyntaxError
    /\ Truthy(Get(cache[f].json, "success"))

\* C20: the script exits with 0 if and only if the directory exists and all
\* 12 expected files exist, parse as JSON and have a truthy success field;
\* otherwise it exits with 1.
C20_ExitZeroIffCacheComplete ==
    chk.done =>
        /\ Cardinality(ExpectedFiles) = 12
        /\ chk.exit \in {0, 1}
        /\ chk.exit = 0 <=> (chk.dirExists /\ \A f \in ExpectedFiles : UsableFile(f))

\* a complete cache in which one file has success: 1 passes the check
C20_Witness ==
    /\ chk.done
    /\ chk.exit = 0
    /\ \E f \in ExpectedFiles : cache[f].json.success = JOne

(***************************************************************************)
(* Cache precedence and the cache check (SpecCache)                        *)
(***************************************************************************)
\* the file was read, parsed to a non-null value and carries success: true
CarriesSuccess(f) ==
    /\ f.exists
    /\ ~Unusable(f)
    /\ f.json.kind = "object"
    /\ "success" \in DOMAIN f.json
    /\ f.json.success = JTrue
DataOf(f) == IF "data" \in DOMAIN f.json THEN f.json.data ELSE Undef
Field(v, k) == IF v.kind = "object" /\ k \in DOMAIN v THEN v[k] ELSE Undef
FromCache ==
    /\ Returned
    /\ ret.success
    /\ ret.data.voting = Field(DataOf(VotingFileRead), "voting")
    /\ ret.data.stacking = Field(DataOf(StackingFileRead), "stacking")
    /\ ret.data.dataset_info =
          (IF Truthy(Field(DataOf(VotingFileRead), "dataset_info"))
           THEN Field(DataOf(VotingFileRead), "dataset_info")
           ELSE Field(DataOf(StackingFileRead), "dataset_info"))
    /\ io \cap {"statSync", "readFileSync", "spawn"} = {}

\* C21 (as claimed): when both files exist, parse and carry success = true,
\* the call returns voting from the first file, stacking from the second
\* and dataset_info from the voting file, else from the stacking file,
\* without stat-ing or reading the dataset file and without spawning; when
\* either file is absent the live path is taken.
C21_SuccessFilesServeCache ==
    (pc # "idle" /\ ValidRequest) =>
        /\ (CarriesSuccess(VotingFileRead) /\ CarriesSuccess(StackingFileRead))
              => FromCache
        /\ ~BothFilesExist => "statSync" \in io

\* C21 (amended): the same, when in addition each of the two files holds a
\* data value that is neither absent nor null.
C21_SuccessFilesWithDataServeCache ==
    (pc # "idle" /\ ValidRequest) =>
        /\ (/\ CarriesSuccess(VotingFileRead)
            /\ CarriesSuccess(StackingFileRead)
            /\ DataOf(VotingFileRead).kind \notin {"undefined", "null"}
            /\ DataOf(StackingFileRead).kind \notin {"undefined", "null"})
              => FromCache
        /\ ~BothFilesExist => "statSync" \in io

\* the voting file has no dataset_info, so the stacking file's one is served
C21_Witness ==
    /\ Returned
    /\ ret.success
    /\ "dataset_info" \notin DOMAIN DataOf(VotingFileRead)
    /\ "file" \in DOMAIN ret.data.voting
    /\ ret.data.voting.file = VotingFile(datasetId)
    /\ "file" \in DOMAIN ret.data.stacking
    /\ ret.data.stacking.file = StackingFile(datasetId, metaLearner)
    /\ "file" \in DOMAIN ret.data.dataset_info
    /\ ret.data.dataset_info.file = StackingFile(datasetId, metaLearner)

\* C28 (as claimed): when the check has exited with 0, every call for a
\* whitelisted dataset and an allowed meta-learner looks up files the check
\* covered and returns success = true from the cache, without spawning.
C28_CheckedCacheIsServed ==
    (chk.done /\ chk.exit = 0 /\ pc # "idle" /\ ValidRequest) =>
        /\ {VotingFile(datasetId), StackingFile(datasetId, metaLearner)}
              \subseteq ExpectedFiles
        /\ Returned
        /\ ret.success
        /\ io = {"existsSync", "readCache"}

\* C29 (as claimed): in every success response data.dataset_info.dataset_id
\* is the dataset id that was requested, on the cache path and on the live
\* path.
C29_InfoNamesRequestedDataset ==
    (Returned /\ ret.success) =>
        /\ ret.data.dataset_info.kind = "object"
        /\ "dataset_id" \in DOMAIN ret.data.dataset_info
        /\ ret.data.dataset_info.dataset_id = datasetId

(***************************************************************************)
(* executePythonScript: settling and termination                           *)
(***************************************************************************)
Settled == promise.state # "pending"

\* C22: for every interleaving of the timer, the data events, close and
\* error, the child is sent SIGTERM at most once; once the promise has
\* settled no event changes its outcome, appends to the stdout or stderr
\* buffer or signals the child again; the promise is settled exactly when
\* completed is set; and the timer has been cleared whenever the promise
\* settled otherwise than by the timeout.
C22_SettledOnceKilledOnce ==
    /\ [](child.kills <= 1)
    /\ [](completed <=> Settled)
    /\ []((Settled /\ promise # Rejected(TimeoutMsg)) => timer = "cleared")
    /\ [][Settled => /\ promise' = promise
                     /\ stdout' = stdout
                     /\ stderr' = stderr
                     /\ child'.kills = child.kills]_vars

\* the timeout rejected the call and killed the child; data, an error and
\* the close event arrived as well
C22_Witness ==
    /\ promise = Rejected(TimeoutMsg)
    /\ child.kills = 1
    /\ child.emitted > 0
    /\ child.errored
    /\ child.state = "closed"
    /\ stdout = <<>>
    /\ stderr = <<>>

\* C27: once the timer is armed the promise is eventually resolved or
\* rejected, and every call that awaits the script eventually returns, if
\* only the timer fires when due, whatever the child process does.
C27_CallTerminates ==
    /\ (timer = "armed") ~> Settled
    /\ (pc = "awaiting") ~> Returned

\* the call returned the timeout while the child was still running and had
\* emitted neither close nor error
C27_Witness ==
    /\ Returned
    /\ promise = Rejected(TimeoutMsg)
    /\ child.state = "running"
    /\ ~child.errored
    /\ child.kills = 1

(***************************************************************************)
(* Home (SpecPage)                                                         *)
(***************************************************************************)
Selections ==
    <<page.selectedDataset, page.selectedMethod, page.selectedMetaLearner>>
RequestSettled == Len(page'.inFlight) < Len(page.inFlight)
ResultsDisplayed ==
    /\ ~page.hasError
    /\ page.results # NoResults
    /\ ~page.isProcessing
    /\ page.selectedMethod # ""

\* C23: at most one request is in flight, and one is in flight exactly
\* while isProcessing is set; while isProcessing is set the only step is the
\* settling of that request, so no request starts and no selection changes;
\* and results on display answer a request for the selected dataset and for
\* the selected meta-learner (for voting: the fixed "linear").
C23_OneRequestFreshResults ==
    /\ [](Len(page.inFlight) <= 1)
    /\ [](page.isProcessing <=> Len(page.inFlight) = 1)
    /\ [][page.isProcessing => RequestSettled]_vars
    /\ [][(page.isProcessing /\ page'.isProcessing) => Selections' = Selections]_vars
    /\ [](ResultsDisplayed =>
            /\ page.results.dataset = page.selectedDataset
            /\ page.results.metaLearner =
                  (IF page.selectedMethod = "stacking"
                   THEN page.selectedMetaLearner ELSE "linear"))

\* voting results on display, with no meta-learner selected
C23_Witness ==
    /\ ResultsDisplayed
    /\ page.selectedMethod = "voting"
    /\ page.selectedMetaLearner = ""
    /\ page.results = [dataset |-> "loan", metaLearner |-> "linear"]
    /\ page.response = "success"

\* C24: in every state reached through the handlers, the responses and the
\* boundary reset in which the boundary is not in its error state, exactly
\* one of the five screens is rendered.
C24_ExactlyOneScreen ==
    ~page.hasError => Cardinality(Screens(page)) = 1

\* after a failed request: the meta-learner selector, alone
C24_Witness ==
    /\ ~page.hasError
    /\ page.response = "failure"
    /\ Screens(page) = {"meta-learner"}

\* C25: when a request settles isProcessing ends false; when it settled
\* with success false or by throwing, results are unchanged, the three
\* selections are null and the dataset picker is the screen.
C25_FailureReturnsToPicker ==
    [][RequestSettled =>
        /\ ~page'.isProcessing
        /\ page'.response \in {"failure", "threw"} =>
              /\ page'.results = page.results
              /\ Selections' = <<"", "", "">>
              /\ (~page'.hasError => Screens(page') = {"picker"})]_vars

\* the call threw and the page is at the picker
C25_Witness ==
    /\ page.response = "threw"
    /\ ~page.isProcessing
    /\ page.inFlight = <<>>
    /\ Selections = <<"", "", "">>
    /\ page.results = NoResults

(***************************************************************************)
(* DatasetPreview (SpecPreview)                                            *)
(***************************************************************************)
\* C26 (as claimed): whatever the open modal displays of fetched rows and
\* headers, the table or the row and feature counts, was fetched for the
\* dataset id it is showing.
C26_RowsBelongToShownDataset ==
    preview.isOpen =>
        /\ countedRows(preview) \in {"", preview.datasetId}
        /\ tableRows(preview) \in {"", preview.datasetId}

(***************************************************************************)
(* Error-distribution histogram (SpecHistogram)                            *)
(***************************************************************************)
RECURSIVE SumBins(_, _)
SumBins(counts, i) == IF i = 0 THEN 0 ELSE counts[i] + SumBins(counts, i - 1)

\* C30 (as claimed): the bin counts of a rendered histogram sum to the
\* number of predictions: every error, the smallest and the largest
\* included, is counted in exactly one bin.
C30_BinsPartitionTheSample ==
    hist.done => SumBins(hist.bins, Len(hist.bins)) = Len(hist.predictions)
====
